---- MODULE Spec2Model ----
(***************************************************************************)
(* Model of the ZillowData scrape-and-ingest pipeline:                     *)
(*   api/scrape_endpoints.py   handle_job, update_listings,                *)
(*                             update_initial_data_route, scrape_and_insert*)
(*   scraper/scrape.py         retry, get_max_pages, handle_page,          *)
(*                             remove_duplicates, scrape,                  *)
(*                             update_listing_data, update_initial_data    *)
(*   database/async_inserter.py check_status, insert_city, insert_status,  *)
(*                             prepare_*, insert_agents,                   *)
(*                             insert_updated_listings,                    *)
(*                             db_update_initial_data                      *)
(*                                                                         *)
(* Python None is the empty sequence <<>> and a present value v is <<v>>.  *)
(* A table is a function whose DOMAIN is the set of keys that have a row,  *)
(* or a set of rows.                                                       *)
(***************************************************************************)
EXTENDS Integers, Sequences, FiniteSets, TLC

VARIABLES
    db,          \* the committed contents of the database
    scrape_lock, \* scrape_endpoints.scrape_lock: <<>> when free, <<r>> when held by r
    pc,          \* where each request is in its handler
    req,         \* each request's payload and route
    job_status,  \* the value check_status returned to the handler
    agents,      \* the list the fetch phase returned (scrape_and_insert's `agents`)
    i,           \* insert_agents / db_update_initial_data: start index of the batch
    tx,          \* the rows the request's session has deleted and not yet committed
    batch,       \* the lists the current batch prepared (agent_data, ...)
    last,        \* db_update_initial_data: the loop variables agent, agent_exists
    response,    \* the HTTP status code the handler answered with
    hist,        \* what has happened to each request (observations the claims speak of)
    call         \* a call of a function wrapped by retry, attempt by attempt

vars == <<db, scrape_lock, pc, req, job_status, agents, i, tx, batch, last, response, hist, call>>

-----------------------------------------------------------------------------
(* Universe of the model *)

Reqs == {"r1", "r2", "r3"}

\* (city, state) as a payload may spell it, and its upper-cased key
RawCities == {"x", "X", "Y"}
upper(c) == IF c = "x" THEN "X" ELSE c
Cities == {upper(c) : c \in RawCities}

AgentIds == {"a1", "a2", "a3"}
Zpids == {"z1", "z2"}

None == <<>>
Some(v) == <<v>>

\* insert_agents / db_update_initial_data cut the input into batches of
\* batch_size agents (250 in the source); the model scales it to its universe.
batch_size == 2

\* retry(retries=3)
retries == 3

\* get_max_pages: 15 agents per page, at most 25 pages
per_page == 15
max_pages_cap == 25

Min(a, b) == IF a <= b THEN a ELSE b

-----------------------------------------------------------------------------
(* The scraped site: what the Page Fetcher returns when a fetch succeeds. *)

agent_types_default == <<"listing-agent", "buyers-agent">>

\* the `total` the first result page of a category reports
SiteTotal(agent_type) == IF agent_type = "listing-agent" THEN 2 * per_page ELSE per_page

\* the professionals a result page lists, in order
SitePage(agent_type, page_number) ==
    CASE agent_type = "listing-agent" /\ page_number = 1 -> <<"a1", "a2">>
      [] agent_type = "listing-agent" /\ page_number = 2 -> <<"a3">>
      [] agent_type = "buyers-agent"  /\ page_number = 1 -> <<"a3", "a1">>
      [] OTHER -> <<>>

\* the listings an agent's profile page shows
SiteListings(a) ==
    CASE a = "a1" -> <<"z1">>
      [] a = "a2" -> <<"z1", "z2">>
      [] OTHER -> <<>>

-----------------------------------------------------------------------------
(* scraper/models.py: Agent *)

\* the stub extract_agents builds for the professional at position rank
Stub(a, agent_type, page_number, rank) ==
    [encodedzuid |-> a, full_name |-> Some("n"), email |-> None,
     ranking |-> Some(rank), page |-> Some(page_number),
     specialties |-> <<agent_type>>,
     phoneNumber |-> None, phoneNumbers |-> None,
     websites |-> <<>>, listings |-> <<>>]

extract_agents(results, agent_type, page_number) ==
    [k \in 1..Len(results) |-> Stub(results[k], agent_type, page_number, k)]

\* Agent(encodedZuid=agentID, profileLink=profile_link), then handle_individual
Bare(a) ==
    [encodedzuid |-> a, full_name |-> None, email |-> None,
     ranking |-> None, page |-> None, specialties |-> <<>>,
     phoneNumber |-> None, phoneNumbers |-> None,
     websites |-> <<>>, listings |-> <<>>]

handle_individual_body(agent) ==
    [agent EXCEPT !.phoneNumbers = Some([cell |-> Some("p1"), brokerage |-> None, business |-> Some("p1")]),
                  !.email = Some("e"),
                  !.listings = SiteListings(agent.encodedzuid),
                  !.websites = <<"w1">>]

-----------------------------------------------------------------------------
(* database/models.py: the tables *)

EmptyFcn == [k \in {} |-> k]

EmptyDB ==
    [city          |-> {},        \* City rows, by their (upper-cased) natural key
     status        |-> EmptyFcn,  \* Status.job_status by city
     agent         |-> EmptyFcn,  \* Agent core fields by encodedzuid
     agent_city    |-> {},        \* <<agent_id, city>>
     phone         |-> {},        \* <<agent_id, phone, type>>
     website       |-> {},        \* <<agent_id, website_url>>
     listing       |-> EmptyFcn,  \* Listing fields by zpid
     listing_agent |-> {}]        \* <<listing_id, agent_id>>

\* the rows a session has deleted inside its open transaction
EmptyTx == [phone |-> {}, website |-> {}, listing_agent |-> {}, listing |-> {}]

Restrict(f, S) == [k \in S |-> f[k]]
Put(f, k, v) == [x \in DOMAIN f \cup {k} |-> IF x = k THEN v ELSE f[x]]
Range(s) == {s[k] : k \in DOMAIN s}

\* what the session sees: the committed rows without the ones it has deleted
View(d, t) ==
    [d EXCEPT !.phone = @ \ t.phone,
              !.website = @ \ t.website,
              !.listing_agent = @ \ t.listing_agent,
              !.listing = Restrict(@, DOMAIN @ \ t.listing)]

-----------------------------------------------------------------------------
(* database/async_inserter.py: status store *)

\* check_status; failed: the lookup raised
check_status(d, city, failed) ==
    IF failed THEN "NOT_SCRAPED(str)"
    ELSE LET c == upper(city) IN
         IF c \in DOMAIN d.status
         THEN CASE d.status[c] = "COMPLETED" -> "COMPLETED"
                [] d.status[c] = "PENDING"   -> "PENDING"
                [] d.status[c] = "ERROR"     -> "ERROR"
                [] d.status[c] = "UNKNOWN"   -> "UNKNOWN"
                [] OTHER -> "None"
         ELSE "NOT_SCRAPED"

\* INSERT ... ON CONFLICT DO NOTHING into the city table, whose rows are unique
\* by (city, state)
city_unique(rows, row) == rows \cup {row}

\* an insert_city that stores the city as it is spelled in the call
insert_city_as_spelled(d, city) == [d EXCEPT !.city = city_unique(@, city)]

\* insert_city on a usable session: the City row is inserted and committed if absent
insert_city(d, city) == [d EXCEPT !.city = city_unique(@, upper(city))]

\* insert_status on a session whose pending changes make the committed rows d:
\* the upsert of the Status row and the commit
insert_status(d, city, status) ==
    LET d1 == insert_city(d, city)
    IN  [d1 EXCEPT !.status = Put(@, upper(city), status)]

-----------------------------------------------------------------------------
(* database/async_inserter.py: preparing one agent *)

agent_exists(d, agent) == agent.encodedzuid \in DOMAIN d.agent

prepare_agent_city(agent, city_id) == <<agent.encodedzuid, city_id>>

\* the merged page of an existing agent
merged_page(agent, og) ==
    IF agent.page # None
    THEN Some(Min(agent.page[1], IF og.page # None THEN og.page[1] ELSE agent.page[1]))
    ELSE og.page

\* a merge that always adopts the incoming ranking
merged_ranking_incoming(agent, og) == agent.ranking

\* the merged ranking of an existing agent
merged_ranking(agent, og) ==
    IF agent.page # None
    THEN IF merged_page(agent, og) = og.page
         THEN (IF og.ranking # None THEN og.ranking ELSE agent.ranking)
         ELSE agent.ranking
    ELSE og.ranking

\* the merged specialties of an existing agent
merged_specialties(agent, og) == Range(agent.specialties) \cup og.specialties

\* a preparation that keeps the stored row of an existing agent as it is
prepare_individual_agent_stored(d, agent, agentExists) ==
    IF agentExists /\ agent.encodedzuid \in DOMAIN d.agent
    THEN d.agent[agent.encodedzuid]
    ELSE [full_name |-> agent.full_name, email |-> agent.email,
          ranking |-> agent.ranking, page |-> agent.page,
          specialties |-> Range(agent.specialties)]

prepare_individual_agent(d, agent, agentExists) ==
    LET agent_data == [full_name |-> agent.full_name, email |-> agent.email,
                       ranking |-> agent.ranking, page |-> agent.page,
                       specialties |-> Range(agent.specialties)]
    IN  IF agentExists /\ agent.encodedzuid \in DOMAIN d.agent
        THEN LET og == d.agent[agent.encodedzuid]
             IN  [agent_data EXCEPT !.ranking = merged_ranking(agent, og),
                                    !.page = merged_page(agent, og),
                                    !.specialties = merged_specialties(agent, og)]
        ELSE agent_data

\* phone_data in the order the dict is filled: primary, cell, brokerage, business
phone_data(agent) ==
    LET pn == agent.phoneNumbers[1]
        all == << <<"primary", agent.phoneNumber>>, <<"cell", pn.cell>>,
                  <<"brokerage", pn.brokerage>>, <<"business", pn.business>> >>
        present(e) == e[2] # None
    IN  SelectSeq(all, present)

\* the loop of prepare_phones: the first row of every distinct phone value
RECURSIVE unique_phones(_, _, _, _, _)
unique_phones(a, data, k, seen, phones) ==
    IF k > Len(data) THEN phones
    ELSE LET phone == data[k][2][1]
         IN  IF phone \in seen
             THEN unique_phones(a, data, k + 1, seen, phones)
             ELSE unique_phones(a, data, k + 1, seen \cup {phone},
                                Append(phones, <<a, phone, data[k][1]>>))

\* prepare_phones: <<rows to insert, the session's deletions afterwards>>.
\* agent.phoneNumbers.cell raises when phoneNumbers is None: the handler returns
\* [] before the DELETE is issued.
prepare_phones(d, t, agent, exists) ==
    LET a == agent.encodedzuid
    IN  IF agent.phoneNumbers = None THEN << <<>>, t >>
        ELSE << unique_phones(a, phone_data(agent), 1, {}, <<>>),
                IF exists
                THEN [t EXCEPT !.phone = @ \cup {p \in d.phone : p[1] = a}]
                ELSE t >>

RECURSIVE unique_websites(_, _, _, _, _)
unique_websites(a, sites, k, seen, websites) ==
    IF k > Len(sites) THEN websites
    ELSE IF sites[k] \in seen
         THEN unique_websites(a, sites, k + 1, seen, websites)
         ELSE unique_websites(a, sites, k + 1, seen \cup {sites[k]},
                              Append(websites, <<a, sites[k]>>))

prepare_websites(d, t, agent, exists) ==
    LET a == agent.encodedzuid
    IN  << unique_websites(a, agent.websites, 1, {}, <<>>),
           IF exists
           THEN [t EXCEPT !.website = @ \cup {w \in d.website : w[1] = a}]
           ELSE t >>

\* the DELETE of every Listing that no ListingAgent row references, as the
\* session sees the tables
orphan_sweep(d, t) ==
    LET v == View(d, t)
    IN  [t EXCEPT !.listing = @ \cup
            {z \in DOMAIN v.listing : ~ \E l \in v.listing_agent : l[1] = z}]

\* a prepare_listings that leaves the links of the agent in place
delete_listing_links_kept(d, t, a) == orphan_sweep(d, t)

\* the deletions of prepare_listings for an existing agent
delete_listing_links(d, t, a) ==
    orphan_sweep(d, [t EXCEPT !.listing_agent = @ \cup {l \in d.listing_agent : l[2] = a}])

RECURSIVE unique_listings(_, _, _, _, _)
unique_listings(a, ls, k, seen_zpids, out) ==
    IF k > Len(ls) THEN out
    ELSE IF ls[k] \in seen_zpids
         THEN unique_listings(a, ls, k + 1, seen_zpids, out)
         ELSE unique_listings(a, ls, k + 1, seen_zpids \cup {ls[k]},
                  [listings_all_data |-> Append(out.listings_all_data, <<ls[k], a>>),
                   listing_agent_data |-> Append(out.listing_agent_data, <<ls[k], a>>)])

\* prepare_listings: <<Listing rows <<zpid, fields>>, link rows <<zpid, agent>>, deletions>>.
\* The fields of a Listing are abstracted to the profile they were read from.
prepare_listings(d, t, agent, exists) ==
    LET a == agent.encodedzuid
        out == unique_listings(a, agent.listings, 1, {},
                               [listings_all_data |-> <<>>, listing_agent_data |-> <<>>])
    IN  << out.listings_all_data, out.listing_agent_data,
           IF exists THEN delete_listing_links(d, t, a) ELSE t >>

-----------------------------------------------------------------------------
(* database/async_inserter.py: one batch of insert_agents *)

EmptyBatch ==
    [agent_data |-> <<>>, agent_city_data |-> <<>>, phones_data |-> <<>>,
     websites_data |-> <<>>, listing_data |-> <<>>, listing_agent_data |-> <<>>]

\* batch_agents = [agent for agent in agents[i:i + batch_size] if agent]
batch_agents(agent_list, start) ==
    LET slice == SubSeq(agent_list, start + 1, Min(start + batch_size, Len(agent_list)))
        truthy(e) == e # None
        unwrap(e) == e[1]
        kept == SelectSeq(slice, truthy)
    IN  [k \in 1..Len(kept) |-> unwrap(kept[k])]

\* what one agent adds to the lists of the batch and to the session's deletions
\* (the body of `for agent in batch_agents` of insert_agents)
prepare_one(d, acc, agent, city_id, update_existing) ==
    LET exists == agent_exists(d, agent)
    IN  IF ~update_existing /\ exists
        THEN [acc EXCEPT !.b.agent_city_data = Append(@, prepare_agent_city(agent, city_id))]
        ELSE LET ph == prepare_phones(d, acc.t, agent, exists)
                 ws == prepare_websites(d, ph[2], agent, exists)
                 ls == prepare_listings(d, ws[2], agent, exists)
             IN  [b |-> [agent_data |-> Append(acc.b.agent_data,
                                <<agent.encodedzuid, prepare_individual_agent(d, agent, exists)>>),
                         agent_city_data |-> Append(acc.b.agent_city_data,
                                prepare_agent_city(agent, city_id)),
                         phones_data |-> acc.b.phones_data \o ph[1],
                         websites_data |-> acc.b.websites_data \o ws[1],
                         listing_data |-> acc.b.listing_data \o ls[1],
                         listing_agent_data |-> acc.b.listing_agent_data \o ls[2]],
                  t |-> ls[3]]

RECURSIVE prepare_loop(_, _, _, _, _, _)
prepare_loop(d, acc, bagents, k, city_id, update_existing) ==
    IF k > Len(bagents) THEN acc
    ELSE prepare_loop(d, prepare_one(d, acc, bagents[k], city_id, update_existing),
                      bagents, k + 1, city_id, update_existing)

\* INSERT ... ON CONFLICT (encodedzuid) DO UPDATE of the Agent rows
RECURSIVE upsert_agents(_, _, _)
upsert_agents(tbl, rows, k) ==
    IF k > Len(rows) THEN tbl
    ELSE upsert_agents(Put(tbl, rows[k][1], rows[k][2]), rows, k + 1)

\* INSERT ... ON CONFLICT DO NOTHING of Listing rows: an existing zpid keeps its fields
RECURSIVE insert_listings(_, _, _)
insert_listings(tbl, rows, k) ==
    IF k > Len(rows) THEN tbl
    ELSE insert_listings(IF rows[k][1] \in DOMAIN tbl THEN tbl
                         ELSE Put(tbl, rows[k][1], [data |-> rows[k][2]]),
                         rows, k + 1)

\* INSERT ... ON CONFLICT DO NOTHING of Phone rows, unique by (agent, phone)
insert_phones(tbl, rows) ==
    tbl \cup {rows[k] : k \in {j \in 1..Len(rows) :
                 /\ ~ \E p \in tbl : p[1] = rows[j][1] /\ p[2] = rows[j][2]
                 /\ ~ \E h \in 1..(j - 1) : rows[h][1] = rows[j][1] /\ rows[h][2] = rows[j][2]}}

\* the write steps of a batch, in the order the code executes them
Steps == 1..6
step_data(b, n) ==
    CASE n = 1 -> b.agent_data
      [] n = 2 -> b.agent_city_data
      [] n = 3 -> b.phones_data
      [] n = 4 -> b.websites_data
      [] n = 5 -> b.listing_data
      [] n = 6 -> b.listing_agent_data

\* a step is executed only when its list is not empty
executed(b, n) == step_data(b, n) # <<>>

exec_step(d, b, n) ==
    IF ~executed(b, n) THEN d
    ELSE CASE n = 1 -> [d EXCEPT !.agent = upsert_agents(@, b.agent_data, 1)]
           [] n = 2 -> [d EXCEPT !.agent_city = @ \cup Range(b.agent_city_data)]
           [] n = 3 -> [d EXCEPT !.phone = insert_phones(@, b.phones_data)]
           [] n = 4 -> [d EXCEPT !.website = @ \cup Range(b.websites_data)]
           [] n = 5 -> [d EXCEPT !.listing = insert_listings(@, b.listing_data, 1)]
           [] n = 6 -> [d EXCEPT !.listing_agent = @ \cup Range(b.listing_agent_data)]

\* the session's rows after steps 1..n of the batch
RECURSIVE exec_steps(_, _, _)
exec_steps(d, b, n) == IF n = 0 THEN d ELSE exec_step(exec_steps(d, b, n - 1), b, n)

-----------------------------------------------------------------------------
(* scraper/scrape.py: the fetch phase *)

\* retry: `fails` leading attempts raise; the first attempt that does not raise
\* returns value, and return_value is returned when all `retries` attempts raised
RECURSIVE retry_loop(_, _, _, _)
retry_loop(attempt, fails, value, return_value) ==
    IF attempt > retries THEN return_value
    ELSE IF attempt > fails THEN value
         ELSE retry_loop(attempt + 1, fails, value, return_value)

retry(fails, value, return_value) == retry_loop(1, fails, value, return_value)

Ceil(n, m) == (n + m - 1) \div m

\* get_max_pages without its decorator, for a first page that reports total_agents
get_max_pages_body(total_agents) ==
    LET max_pages == Ceil(total_agents, per_page)
    IN  IF max_pages > max_pages_cap THEN max_pages_cap ELSE max_pages

\* @retry(retries=3, return_value=25) get_max_pages
get_max_pages(agent_type, fails) ==
    retry(fails, get_max_pages_body(SiteTotal(agent_type)), max_pages_cap)

\* @retry(retries=3) handle_page: the stubs of the page, or None
handle_page(agent_type, page_number, fails) ==
    retry(fails, Some(extract_agents(SitePage(agent_type, page_number), agent_type, page_number)),
          None)

\* @retry(retries=3) handle_individual: the agent with its profile data, or None
handle_individual(agent, fails) == retry(fails, Some(handle_individual_body(agent)), None)

\* a removal of duplicates that keeps the last occurrence of an encodedzuid
remove_duplicates_keep_last(agent_data) ==
    LET kept == {k \in 1..Len(agent_data) :
                    \A j \in (k + 1)..Len(agent_data) :
                        agent_data[j].encodedzuid # agent_data[k].encodedzuid}
        F[k \in 0..Len(agent_data)] ==
            IF k = 0 THEN <<>>
            ELSE IF k \in kept THEN Append(F[k - 1], agent_data[k]) ELSE F[k - 1]
    IN  F[Len(agent_data)]

RECURSIVE remove_duplicates_loop(_, _, _, _)
remove_duplicates_loop(agent_data, k, seen, unique_agents) ==
    IF k > Len(agent_data) THEN unique_agents
    ELSE IF agent_data[k].encodedzuid \notin seen
         THEN remove_duplicates_loop(agent_data, k + 1, seen \cup {agent_data[k].encodedzuid},
                                     Append(unique_agents, agent_data[k]))
         ELSE remove_duplicates_loop(agent_data, k + 1, seen, unique_agents)

remove_duplicates(agent_data) == remove_duplicates_loop(agent_data, 1, {}, <<>>)

\* the page tasks whose fetch can return agents, and the ways a retried call can go
ContentTasks == {<<"listing-agent", 1>>, <<"listing-agent", 2>>, <<"buyers-agent", 1>>}
Fails == {0, 1, retries}

\* What the surroundings of the program may do in a behaviour: the payloads
\* that arrive, the ways the fetches go and the faults of the database.
\*   overlap     the requests that may be served at the same time as this one
\*   first       whether the request arrives before the ones it does not overlap
\*   routes      the endpoints a request may be sent to
\*   cities      spellings of the city in a payload
\*   page_ends   values of payload.page_end
\*   probes      ways each get_max_pages call goes (failing attempts)
\*   pages       ways the page fetches go: functions ContentTasks -> Fails
\*   profiles    ways the profile fetches go: functions AgentIds -> Fails
\*   data        the dicts of /update-initial-data, as the sequence of their keys
\*   raise       whether the orchestration of a fetch phase may raise
\*   faults      whether a write step may raise
\*   lookups     whether the status lookup may raise
AllPages == [ContentTasks -> {0, retries}]
AllProfiles == [AgentIds -> {0, retries}]
Routes == {"scrape", "update_listings", "update_initial"}
FullEnv ==
    [overlap |-> {}, first |-> FALSE, routes |-> Routes, cities |-> RawCities, page_ends |-> {None, Some(1)}, probes |-> Fails,
     pages |-> AllPages, profiles |-> AllProfiles,
     data |-> {<<"a1", "a2", "a3">>, <<"a3", "a1">>},
     raise |-> BOOLEAN, faults |-> BOOLEAN, lookups |-> BOOLEAN]

task_fails(pf, agent_type, page_number) ==
    IF <<agent_type, page_number>> \in ContentTasks THEN pf[<<agent_type, page_number>>] ELSE 0

\* the results of the futures of one category, pages start..end, in submission order
RECURSIVE category_results(_, _, _, _)
category_results(agent_type, page_number, end, pf) ==
    IF page_number > end THEN <<>>
    ELSE LET result == handle_page(agent_type, page_number, task_fails(pf, agent_type, page_number))
         IN  (IF result # None /\ result[1] # <<>> THEN result[1] ELSE <<>>)
             \o category_results(agent_type, page_number + 1, end, pf)

\* the body of scrape's try block: agent_data after remove_duplicates
RECURSIVE scrape_results(_, _, _, _, _, _)
scrape_results(agent_types, k, page_start, page_end, mf, pf) ==
    IF k > Len(agent_types) THEN <<>>
    ELSE LET start == IF page_start # None THEN page_start[1] ELSE 1
             end == IF page_end = None THEN get_max_pages(agent_types[k], mf[agent_types[k]])
                    ELSE page_end[1]
         IN  category_results(agent_types[k], start, end, pf)
             \o scrape_results(agent_types, k + 1, page_start, page_end, mf, pf)

scrape_body(payload, mf, pf) ==
    remove_duplicates(scrape_results(payload.agent_types, 1, payload.page_start,
                                     payload.page_end, mf, pf))

\* the submitted page tasks for which handle_page returned None
lost_pages(payload, mf, pf) ==
    {t \in ContentTasks :
        /\ t[1] \in Range(payload.agent_types)
        /\ t[2] >= (IF payload.page_start # None THEN payload.page_start[1] ELSE 1)
        /\ t[2] <= (IF payload.page_end = None THEN get_max_pages(t[1], mf[t[1]])
                    ELSE payload.page_end[1])
        /\ handle_page(t[1], t[2], pf[t]) = None}

\* a list of agents as scrape_and_insert holds it: every element present
Wrap(s) == [k \in 1..Len(s) |-> Some(s[k])]

-----------------------------------------------------------------------------
(* The requests *)

NoReq == [route |-> "none", city |-> "X", update_existing |-> FALSE,
          page_start |-> None, page_end |-> None, agent_types |-> <<>>, data |-> <<>>]

\* no retried call is followed
NoCall == [func |-> "none", retries |-> 0, return_value |-> None, attempt |-> 0,
           kwargs |-> None, modes |-> <<>>, raised |-> 0, slept |-> 0,
           pc |-> "none", result |-> None]

\* pending: the job wrote PENDING; fetched: its fetch phase returned; aborted:
\* the fetch phase ended in its except branch; lost: the page tasks whose every
\* attempt failed; failed: the start indexes of the batches a write step failed in
NoHist == [pending |-> FALSE, fetched |-> FALSE, aborted |-> FALSE, lost |-> {}, failed |-> {},
           probes |-> <<>>, futures |-> <<>>, done |-> <<>>, statements |-> <<>>,
           removed |-> {}]

Init ==
    /\ db = EmptyDB
    /\ scrape_lock = None
    /\ pc = [r \in Reqs |-> "idle"]
    /\ req = [r \in Reqs |-> NoReq]
    /\ job_status = [r \in Reqs |-> "None"]
    /\ agents = [r \in Reqs |-> <<>>]
    /\ i = [r \in Reqs |-> 0]
    /\ tx = [r \in Reqs |-> EmptyTx]
    /\ batch = [r \in Reqs |-> EmptyBatch]
    /\ last = [r \in Reqs |-> None]
    /\ response = [r \in Reqs |-> 0]
    /\ hist = [r \in Reqs |-> NoHist]
    /\ call = NoCall

\* a request arrives when every request it does not overlap with is not being
\* served, and has not arrived yet if r is to be the first request
arrives(r, E) ==
    \A q \in Reqs \ ({r} \cup E.overlap) :
        pc[q] \in (IF E.first THEN {"idle"} ELSE {"idle", "done"})

\* a handle_job that runs scrape_and_insert whatever status it read
handle_job_decision_always(update_existing, st) == <<"lockwait", 0>>

\* a handle_job that compares the status it read by value, so that the string
\* 'NOT_SCRAPED' of a failed lookup passes for JobStatus.NOT_SCRAPED
handle_job_decision_by_value(update_existing, st) ==
    IF update_existing THEN <<"lockwait", 0>>
    ELSE IF st \in {"NOT_SCRAPED", "ERROR", "NOT_SCRAPED(str)"} THEN <<"lockwait", 0>>
    ELSE IF st = "COMPLETED" THEN <<"done", 422>>
    ELSE IF st = "PENDING" THEN <<"done", 409>>
    ELSE <<"done", 500>>

\* the answer of handle_job: the next position and the HTTP status code
handle_job_decision(update_existing, st) ==
    IF update_existing THEN <<"lockwait", 0>>
    ELSE IF st \in {"NOT_SCRAPED", "ERROR"} THEN <<"lockwait", 0>>
    ELSE IF st = "COMPLETED" THEN <<"done", 422>>
    ELSE IF st = "PENDING" THEN <<"done", 409>>
    ELSE <<"done", 500>>

\* POST /scrape up to the call of scrape_and_insert
handle_job(r, E) ==
    /\ pc[r] = "idle"
    /\ "scrape" \in E.routes
    /\ arrives(r, E)
    /\ \E city \in E.cities, upd \in BOOLEAN, pe \in E.page_ends, failed \in E.lookups :
          LET st == check_status(db, city, failed)
              dec == handle_job_decision(upd, st)
          IN  /\ req' = [req EXCEPT ![r] = [NoReq EXCEPT !.route = "scrape", !.city = city,
                                              !.update_existing = upd, !.page_end = pe,
                                              !.agent_types = agent_types_default]]
              /\ job_status' = [job_status EXCEPT ![r] = st]
              /\ pc' = [pc EXCEPT ![r] = dec[1]]
              /\ response' = [response EXCEPT ![r] = dec[2]]
    /\ UNCHANGED <<db, scrape_lock, agents, i, tx, batch, last, hist, call>>

\* an acquire that does not wait for the lock to be free
acquire_nowait(r) ==
    /\ pc[r] = "lockwait"
    /\ scrape_lock' = Some(r)
    /\ pc' = [pc EXCEPT ![r] = "locked"]
    /\ UNCHANGED <<db, req, job_status, agents, i, tx, batch, last, response, hist, call>>

\* await scrape_lock.acquire()
acquire(r) ==
    /\ pc[r] = "lockwait"
    /\ scrape_lock = None
    /\ scrape_lock' = Some(r)
    /\ pc' = [pc EXCEPT ![r] = "locked"]
    /\ UNCHANGED <<db, req, job_status, agents, i, tx, batch, last, response, hist, call>>

\* scrape: asyncio.run(insert_status(city, state, "PENDING", async_inserter))
scrape_pending(r) ==
    /\ pc[r] = "locked"
    /\ req[r].route = "scrape"
    /\ db' = insert_status(db, req[r].city, "PENDING")
    /\ pc' = [pc EXCEPT ![r] = "fetching"]
    /\ hist' = [hist EXCEPT ![r].pending = TRUE]
    /\ UNCHANGED <<scrape_lock, req, job_status, agents, i, tx, batch, last, response, call>>

\* a scrape whose except branch returns [] without writing ERROR
scrape_silent(r, E) ==
    /\ pc[r] = "fetching"
    /\ req[r].route = "scrape"
    /\ \E raised \in E.raise :
          IF raised
          THEN /\ agents' = [agents EXCEPT ![r] = <<>>]
               /\ hist' = [hist EXCEPT ![r].fetched = TRUE, ![r].aborted = TRUE]
          ELSE \E mf \in [Range(req[r].agent_types) -> E.probes], pf \in E.pages :
               /\ agents' = [agents EXCEPT ![r] = Wrap(scrape_body(req[r], mf, pf))]
               /\ hist' = [hist EXCEPT ![r].fetched = TRUE,
                                       ![r].lost = lost_pages(req[r], mf, pf)]
    /\ pc' = [pc EXCEPT ![r] = "fetched"]
    /\ UNCHANGED <<db, scrape_lock, req, job_status, i, tx, batch, last, response, call>>

\* a scrape in which a page task that returns None raises in the try block
scrape_strict(r, E) ==
    /\ pc[r] = "fetching"
    /\ req[r].route = "scrape"
    /\ \E raised \in E.raise, mf \in [Range(req[r].agent_types) -> E.probes], pf \in E.pages :
          IF raised \/ lost_pages(req[r], mf, pf) # {}
          THEN /\ db' = insert_status(db, req[r].city, "ERROR")
               /\ agents' = [agents EXCEPT ![r] = <<>>]
               /\ hist' = [hist EXCEPT ![r].fetched = TRUE, ![r].aborted = TRUE,
                                       ![r].lost = IF raised THEN {} ELSE lost_pages(req[r], mf, pf)]
          ELSE /\ agents' = [agents EXCEPT ![r] = Wrap(scrape_body(req[r], mf, pf))]
               /\ hist' = [hist EXCEPT ![r].fetched = TRUE]
               /\ db' = db
    /\ pc' = [pc EXCEPT ![r] = "fetched"]
    /\ UNCHANGED <<scrape_lock, req, job_status, i, tx, batch, last, response, call>>

\* scrape: the try block (the page fan-out and remove_duplicates), or its
\* except branch when something in it raises
scrape(r, E) ==
    /\ pc[r] = "fetching"
    /\ req[r].route = "scrape"
    /\ \E raised \in E.raise :
          IF raised
          THEN /\ db' = insert_status(db, req[r].city, "ERROR")
               /\ agents' = [agents EXCEPT ![r] = <<>>]
               /\ hist' = [hist EXCEPT ![r].fetched = TRUE, ![r].aborted = TRUE]
          ELSE \E mf \in [Range(req[r].agent_types) -> E.probes], pf \in E.pages :
               /\ agents' = [agents EXCEPT ![r] = Wrap(scrape_body(req[r], mf, pf))]
               /\ hist' = [hist EXCEPT ![r].fetched = TRUE,
                                       ![r].lost = lost_pages(req[r], mf, pf)]
               /\ db' = db
    /\ pc' = [pc EXCEPT ![r] = "fetched"]
    /\ UNCHANGED <<scrape_lock, req, job_status, i, tx, batch, last, response, call>>

\* a return from the fetch that keeps the lock
release_skipped(r) ==
    /\ pc[r] = "fetched"
    /\ pc' = [pc EXCEPT ![r] = "insert"]
    /\ UNCHANGED <<db, scrape_lock, req, job_status, agents, i, tx, batch, last, response, hist, call>>

\* scrape_and_insert: finally: scrape_lock.release()
release(r) ==
    /\ pc[r] = "fetched"
    /\ scrape_lock' = None
    /\ pc' = [pc EXCEPT ![r] = "insert"]
    /\ UNCHANGED <<db, req, job_status, agents, i, tx, batch, last, response, hist, call>>

\* where insert_agents goes after the batch that started at index start
after_batch(agent_list, start) ==
    IF start + batch_size < Len(agent_list) THEN "prepare" ELSE "complete"

\* an insert_agents without the check `if not agents`
insert_agents_begin_unchecked(r) ==
    /\ pc[r] = "insert"
    /\ req[r].route = "scrape"
    /\ db' = insert_city(db, req[r].city)
    /\ pc' = [pc EXCEPT ![r] = "prepare"]
    /\ i' = [i EXCEPT ![r] = 0]
    /\ UNCHANGED <<scrape_lock, req, job_status, agents, tx, batch, last, response, hist, call>>

\* insert_agents: the empty-input check and the resolution of the city
insert_agents_begin(r) ==
    /\ pc[r] = "insert"
    /\ req[r].route = "scrape"
    /\ IF agents[r] = <<>>
       THEN /\ db' = insert_status(db, req[r].city, "ERROR")
            /\ pc' = [pc EXCEPT ![r] = "reply"]
            /\ hist' = hist
       ELSE /\ db' = insert_city(db, req[r].city)
            /\ pc' = [pc EXCEPT ![r] = "prepare"]
            /\ hist' = hist
    /\ i' = [i EXCEPT ![r] = 0]
    /\ UNCHANGED <<scrape_lock, req, job_status, agents, tx, batch, last, response, call>>

\* insert_agents: the `for agent in batch_agents` loop of the batch at i, and
\* the else branch of `if agent_data` when the loop prepared no agent
insert_agents_prepare(r) ==
    /\ pc[r] = "prepare"
    /\ req[r].route = "scrape"
    /\ LET acc == prepare_loop(db, [b |-> EmptyBatch, t |-> EmptyTx],
                               batch_agents(agents[r], i[r]), 1,
                               upper(req[r].city), req[r].update_existing)
       IN  IF acc.b.agent_data = <<>>
           THEN /\ db' = insert_status(View(db, acc.t), req[r].city, "ERROR")
                /\ i' = [i EXCEPT ![r] = @ + batch_size]
                /\ pc' = [pc EXCEPT ![r] = after_batch(agents[r], i[r])]
                /\ UNCHANGED <<tx, batch>>
           ELSE /\ batch' = [batch EXCEPT ![r] = acc.b]
                /\ tx' = [tx EXCEPT ![r] = acc.t]
                /\ pc' = [pc EXCEPT ![r] = "write"]
                /\ UNCHANGED <<db, i>>
    /\ UNCHANGED <<scrape_lock, req, job_status, agents, last, response, hist, call>>

\* The outcome of the write steps of a batch. failed_step = 0: every executed
\* step succeeded and the batch is committed. Otherwise step failed_step raised;
\* the handler calls insert_status(.., "ERROR", session) and then
\* session.rollback(). When the failure left the transaction aborted on the
\* server, the SELECT of insert_city raises, insert_city rolls back and returns
\* None, and no status is written. When the statement raised before it reached
\* the server the transaction is intact, and the commit of insert_status makes
\* the deletions and the earlier steps of the batch durable.
write_outcome(d, t, b, city, failed_step, aborted) ==
    IF failed_step = 0 THEN exec_steps(View(d, t), b, 6)
    ELSE IF aborted THEN d
    ELSE insert_status(exec_steps(View(d, t), b, failed_step - 1), city, "ERROR")

\* insert_agents: the write steps of the prepared batch and the commit
insert_agents_write(r, E) ==
    /\ pc[r] = "write"
    /\ req[r].route = "scrape"
    /\ \E failed_step \in {0} \cup {n \in Steps : executed(batch[r], n)}, aborted \in BOOLEAN :
          /\ failed_step = 0 => ~aborted
          /\ failed_step # 0 => TRUE \in E.faults
          /\ db' = write_outcome(db, tx[r], batch[r], req[r].city, failed_step, aborted)
          /\ hist' = [hist EXCEPT ![r].failed = IF failed_step # 0 THEN @ \cup {i[r]} ELSE @]
    /\ tx' = [tx EXCEPT ![r] = EmptyTx]
    /\ batch' = [batch EXCEPT ![r] = EmptyBatch]
    /\ i' = [i EXCEPT ![r] = @ + batch_size]
    /\ pc' = [pc EXCEPT ![r] = after_batch(agents[r], i[r])]
    /\ UNCHANGED <<scrape_lock, req, job_status, agents, last, response, call>>

\* insert_agents: await self.insert_status(city, state, "COMPLETED", session)
insert_agents_complete(r) ==
    /\ pc[r] = "complete"
    /\ req[r].route = "scrape"
    /\ db' = insert_status(db, req[r].city, "COMPLETED")
    /\ pc' = [pc EXCEPT ![r] = "reply"]
    /\ UNCHANGED <<scrape_lock, req, job_status, agents, i, tx, batch, last, response, hist, call>>

\* handle_job after scrape_and_insert: complete_status and the answer
handle_job_reply(r, E) ==
    /\ pc[r] = "reply"
    /\ req[r].route = "scrape"
    /\ \E failed \in E.lookups :
          response' = [response EXCEPT ![r] =
              IF check_status(db, req[r].city, failed) = "COMPLETED" THEN 200 ELSE 500]
    /\ pc' = [pc EXCEPT ![r] = "done"]
    /\ UNCHANGED <<db, scrape_lock, req, job_status, agents, i, tx, batch, last, hist, call>>

-----------------------------------------------------------------------------
(* POST /update/listings *)

\* a set of agent ids in the order the model lists rows
RECURSIVE Listed(_, _)
Listed(S, order) ==
    IF order = <<>> THEN <<>>
    ELSE (IF Head(order) \in S THEN <<Head(order)>> ELSE <<>>) \o Listed(S, Tail(order))

IdOrder == <<"a1", "a2", "a3">>

\* select(AgentModel.encodedzuid).join(AgentCityModel).join(CityModel)
agents_of_city(d, city) ==
    Listed({a \in DOMAIN d.agent : <<a, upper(city)>> \in d.agent_city}, IdOrder)

\* the answer of update_listings: the next position and the HTTP status code
update_listings_decision(st, agent_ids) ==
    IF st = "COMPLETED" THEN (IF agent_ids = <<>> THEN <<"done", 200>> ELSE <<"lockwait", 0>>)
    ELSE IF st = "NOT_SCRAPED" THEN <<"done", 404>>
    ELSE IF st = "PENDING" THEN <<"done", 409>>
    ELSE IF st = "ERROR" THEN <<"done", 422>>
    ELSE <<"done", 500>>

\* POST /update/listings up to the call of scrape_and_insert
update_listings(r, E) ==
    /\ pc[r] = "idle"
    /\ "update_listings" \in E.routes
    /\ arrives(r, E)
    /\ \E city \in E.cities, failed \in E.lookups :
          LET st == check_status(db, city, failed)
              agent_ids == IF st = "COMPLETED" THEN agents_of_city(db, city) ELSE <<>>
              dec == update_listings_decision(st, agent_ids)
          IN  /\ req' = [req EXCEPT ![r] = [NoReq EXCEPT !.route = "update_listings",
                                              !.city = city, !.data = agent_ids]]
              /\ job_status' = [job_status EXCEPT ![r] = st]
              /\ pc' = [pc EXCEPT ![r] = dec[1]]
              /\ response' = [response EXCEPT ![r] = dec[2]]
    /\ UNCHANGED <<db, scrape_lock, agents, i, tx, batch, last, hist, call>>

\* update_listing_data: asyncio.run(insert_status(city, state, "PENDING", async_inserter))
update_listing_data_pending(r) ==
    /\ pc[r] = "locked"
    /\ req[r].route = "update_listings"
    /\ db' = insert_status(db, req[r].city, "PENDING")
    /\ pc' = [pc EXCEPT ![r] = "fetching"]
    /\ hist' = [hist EXCEPT ![r].pending = TRUE]
    /\ UNCHANGED <<scrape_lock, req, job_status, agents, i, tx, batch, last, response, call>>

\* [future.result() for future in futures] over handle_individual(agent)
profile_results(ids, hf) ==
    [k \in 1..Len(ids) |-> handle_individual(Bare(ids[k]), hf[ids[k]])]

\* get_profile_links: the ids among agent_ids that have an Agent row
profile_links(d, agent_ids) == Listed(Range(agent_ids) \cap DOMAIN d.agent, IdOrder)

\* update_listing_data: the try block, or its except branch
update_listing_data(r, E) ==
    /\ pc[r] = "fetching"
    /\ req[r].route = "update_listings"
    /\ \E raised \in E.raise :
          IF raised
          THEN /\ db' = insert_status(db, req[r].city, "ERROR")
               /\ agents' = [agents EXCEPT ![r] = <<>>]
               /\ hist' = [hist EXCEPT ![r].fetched = TRUE, ![r].aborted = TRUE]
          ELSE \E hf \in E.profiles :
               /\ agents' = [agents EXCEPT ![r] =
                                profile_results(profile_links(db, req[r].data), hf)]
               /\ hist' = [hist EXCEPT ![r].fetched = TRUE]
               /\ db' = db
    /\ pc' = [pc EXCEPT ![r] = "fetched"]
    /\ UNCHANGED <<scrape_lock, req, job_status, i, tx, batch, last, response, call>>

\* the `for agent in agents` loop of insert_updated_listings
RECURSIVE updated_listings_loop(_, _, _, _)
updated_listings_loop(d, acc, agent_list, k) ==
    IF k > Len(agent_list) THEN acc
    ELSE LET ls == prepare_listings(d, acc.t, agent_list[k][1], TRUE)
         IN  updated_listings_loop(d,
                 [b |-> IF ls[1] # <<>> /\ ls[2] # <<>>
                        THEN [acc.b EXCEPT !.listing_data = @ \o ls[1],
                                           !.listing_agent_data = @ \o ls[2]]
                        ELSE acc.b,
                  t |-> ls[3]],
                 agent_list, k + 1)

\* insert_updated_listings up to the bulk inserts. agent.encodedzuid raises
\* for a None in the list: get_session rolls back and the outer handler
\* writes ERROR.
insert_updated_listings_prepare(r) ==
    /\ pc[r] = "insert"
    /\ req[r].route = "update_listings"
    /\ IF agents[r] = <<>> \/ \E k \in 1..Len(agents[r]) : agents[r][k] = None
       THEN /\ db' = insert_status(db, req[r].city, "ERROR")
            /\ pc' = [pc EXCEPT ![r] = "reply"]
            /\ UNCHANGED <<tx, batch, last>>
       ELSE LET acc == updated_listings_loop(db, [b |-> EmptyBatch, t |-> EmptyTx], agents[r], 1)
            IN  /\ db' = insert_city(db, req[r].city)
                /\ batch' = [batch EXCEPT ![r] = acc.b]
                /\ tx' = [tx EXCEPT ![r] = acc.t]
                /\ pc' = [pc EXCEPT ![r] = "write"]
    /\ UNCHANGED <<scrape_lock, req, job_status, agents, i, last, response, hist, call>>

\* insert_updated_listings: the bulk inserts; then the commit and COMPLETED,
\* or insert_status(.., "ERROR", session), session.rollback() and return
insert_updated_listings_write(r, E) ==
    /\ pc[r] = "write"
    /\ req[r].route = "update_listings"
    /\ \E failed_step \in {0} \cup {n \in {5, 6} : executed(batch[r], n)}, aborted \in BOOLEAN :
          /\ failed_step = 0 => ~aborted
          /\ failed_step # 0 => TRUE \in E.faults
          /\ db' = IF failed_step = 0
                   THEN insert_status(exec_steps(View(db, tx[r]), batch[r], 6),
                                      req[r].city, "COMPLETED")
                   ELSE write_outcome(db, tx[r], batch[r], req[r].city, failed_step, aborted)
          /\ hist' = [hist EXCEPT ![r].failed = IF failed_step # 0 THEN @ \cup {i[r]} ELSE @]
    /\ tx' = [tx EXCEPT ![r] = EmptyTx]
    /\ batch' = [batch EXCEPT ![r] = EmptyBatch]
    /\ pc' = [pc EXCEPT ![r] = "reply"]
    /\ UNCHANGED <<scrape_lock, req, job_status, agents, i, last, response, call>>

\* update_listings after scrape_and_insert: complete_status and the answer
update_listings_reply(r, E) ==
    /\ pc[r] = "reply"
    /\ req[r].route = "update_listings"
    /\ \E failed \in E.lookups :
          response' = [response EXCEPT ![r] =
              IF check_status(db, req[r].city, failed) = "COMPLETED" THEN 200 ELSE 500]
    /\ pc' = [pc EXCEPT ![r] = "done"]
    /\ UNCHANGED <<db, scrape_lock, req, job_status, agents, i, tx, batch, last, hist, call>>

-----------------------------------------------------------------------------
(* POST /update-initial-data *)

\* POST /update-initial-data up to the acquisition of the lock; payload.data
\* is the dict {encodedzuid: profile link}, its keys in insertion order
update_initial_data_route(r, E) ==
    /\ pc[r] = "idle"
    /\ "update_initial" \in E.routes
    /\ arrives(r, E)
    /\ \E data \in E.data :
          req' = [req EXCEPT ![r] = [NoReq EXCEPT !.route = "update_initial", !.data = data]]
    /\ pc' = [pc EXCEPT ![r] = "lockwait"]
    /\ UNCHANGED <<db, scrape_lock, job_status, agents, i, tx, batch, last, response, hist, call>>

\* update_initial_data: the try block, or its except branch
update_initial_data(r, E) ==
    /\ pc[r] = "locked"
    /\ req[r].route = "update_initial"
    /\ \E raised \in E.raise :
          IF raised
          THEN /\ agents' = [agents EXCEPT ![r] = <<>>]
               /\ hist' = [hist EXCEPT ![r].fetched = TRUE, ![r].aborted = TRUE]
          ELSE \E hf \in E.profiles :
               /\ agents' = [agents EXCEPT ![r] = profile_results(req[r].data, hf)]
               /\ hist' = [hist EXCEPT ![r].fetched = TRUE]
    /\ pc' = [pc EXCEPT ![r] = "fetched"]
    /\ UNCHANGED <<db, scrape_lock, req, job_status, i, tx, batch, last, response, call>>

\* db_update_initial_data: the empty-input check
db_update_initial_data_begin(r) ==
    /\ pc[r] = "insert"
    /\ req[r].route = "update_initial"
    /\ pc' = [pc EXCEPT ![r] = IF agents[r] = <<>> THEN "done" ELSE "prepare"]
    /\ response' = [response EXCEPT ![r] = IF agents[r] = <<>> THEN 200 ELSE @]
    /\ i' = [i EXCEPT ![r] = 0]
    /\ last' = [last EXCEPT ![r] = None]
    /\ UNCHANGED <<db, scrape_lock, req, job_status, agents, tx, batch, hist, call>>

\* what one agent adds to the lists of the batch (the body of
\* `for agent in batch_agents` of db_update_initial_data)
update_one(d, acc, agent) ==
    LET exists == agent_exists(d, agent)
    IN  IF ~exists THEN [acc EXCEPT !.l = Some([agent |-> agent, agent_exists |-> FALSE])]
        ELSE LET ph == prepare_phones(d, acc.t, agent, exists)
                 ws == prepare_websites(d, ph[2], agent, exists)
                 ls == prepare_listings(d, ws[2], agent, exists)
             IN  [b |-> [acc.b EXCEPT !.phones_data = @ \o ph[1],
                                      !.websites_data = @ \o ws[1],
                                      !.listing_data = @ \o ls[1],
                                      !.listing_agent_data = @ \o ls[2]],
                  t |-> ls[3],
                  l |-> Some([agent |-> agent, agent_exists |-> TRUE])]

RECURSIVE update_loop(_, _, _, _)
update_loop(d, acc, bagents, k) ==
    IF k > Len(bagents) THEN acc
    ELSE update_loop(d, update_one(d, acc, bagents[k]), bagents, k + 1)

\* where db_update_initial_data goes after the batch that started at index start
after_update_batch(agent_list, start) ==
    IF start + batch_size < Len(agent_list) THEN "prepare" ELSE "done"

\* db_update_initial_data: the `for agent in batch_agents` loop of the batch at
\* i and the test `if agent_exists:` that follows it. agent and agent_exists
\* are the loop's variables: after a batch without agents they keep the values
\* of the batch before, and the test raises when they were never bound. The
\* deletions of the session stay pending when the else branch continues.
db_update_initial_data_prepare(r) ==
    /\ pc[r] = "prepare"
    /\ req[r].route = "update_initial"
    /\ LET acc == update_loop(db, [b |-> EmptyBatch, t |-> tx[r], l |-> last[r]],
                              batch_agents(agents[r], i[r]), 1)
           next == after_update_batch(agents[r], i[r])
       IN  IF acc.l = None
           THEN /\ pc' = [pc EXCEPT ![r] = "done"]
                /\ tx' = [tx EXCEPT ![r] = EmptyTx]
                /\ UNCHANGED <<batch, last, i>>
           ELSE IF acc.l[1].agent_exists
           THEN /\ pc' = [pc EXCEPT ![r] = "write"]
                /\ batch' = [batch EXCEPT ![r] = acc.b]
                /\ tx' = [tx EXCEPT ![r] = acc.t]
                /\ last' = [last EXCEPT ![r] = acc.l]
                /\ i' = i
           ELSE /\ pc' = [pc EXCEPT ![r] = next]
                /\ tx' = [tx EXCEPT ![r] = IF next = "done" THEN EmptyTx ELSE acc.t]
                /\ last' = [last EXCEPT ![r] = acc.l]
                /\ i' = [i EXCEPT ![r] = @ + batch_size]
                /\ batch' = batch
    /\ response' = [response EXCEPT ![r] = IF pc'[r] = "done" THEN 200 ELSE @]
    /\ UNCHANGED <<db, scrape_lock, req, job_status, agents, hist, call>>

\* UPDATE agent SET email = agent.email WHERE encodedzuid = agent.encodedzuid
update_email(d, agent) ==
    IF agent.encodedzuid \in DOMAIN d.agent
    THEN [d EXCEPT !.agent[agent.encodedzuid].email = agent.email]
    ELSE d

\* db_update_initial_data: the write steps of the batch and the commit; a step
\* that raises is answered with session.rollback() and continue
db_update_initial_data_write(r, E) ==
    /\ pc[r] = "write"
    /\ req[r].route = "update_initial"
    /\ \E failed_step \in {0, 1} \cup {n \in 3..6 : executed(batch[r], n)} :
          /\ failed_step # 0 => TRUE \in E.faults
          /\ db' = IF failed_step = 0
                   THEN exec_steps(update_email(View(db, tx[r]), last[r][1].agent), batch[r], 6)
                   ELSE db
          /\ hist' = [hist EXCEPT ![r].failed = IF failed_step # 0 THEN @ \cup {i[r]} ELSE @]
    /\ tx' = [tx EXCEPT ![r] = EmptyTx]
    /\ batch' = [batch EXCEPT ![r] = EmptyBatch]
    /\ i' = [i EXCEPT ![r] = @ + batch_size]
    /\ pc' = [pc EXCEPT ![r] = after_update_batch(agents[r], i[r])]
    /\ response' = [response EXCEPT ![r] = IF pc'[r] = "done" THEN 200 ELSE @]
    /\ UNCHANGED <<scrape_lock, req, job_status, agents, last, call>>

\* the steps of request r in surroundings E
Step(r, E) ==
    \/ handle_job(r, E)
    \/ update_listings(r, E)
    \/ update_initial_data_route(r, E)
    \/ acquire(r)
    \/ scrape_pending(r)
    \/ scrape(r, E)
    \/ update_listing_data_pending(r)
    \/ update_listing_data(r, E)
    \/ update_initial_data(r, E)
    \/ release(r)
    \/ insert_agents_begin(r)
    \/ insert_agents_prepare(r)
    \/ insert_agents_write(r, E)
    \/ insert_agents_complete(r)
    \/ handle_job_reply(r, E)
    \/ insert_updated_listings_prepare(r)
    \/ insert_updated_listings_write(r, E)
    \/ update_listings_reply(r, E)
    \/ db_update_initial_data_begin(r)
    \/ db_update_initial_data_prepare(r)
    \/ db_update_initial_data_write(r, E)

\* Surroundings in which the fetches of a job succeed or fail as a whole and
\* the database raises nothing
JobsEnv ==
    [overlap |-> {}, first |-> FALSE, routes |-> Routes, cities |-> {"x", "Y"},
     page_ends |-> {None}, probes |-> {0},
     pages |-> {[t \in ContentTasks |-> 0], [t \in ContentTasks |-> retries]},
     profiles |-> {[a \in AgentIds |-> 0], [a \in AgentIds |-> retries]},
     data |-> {<<"a1", "a2", "a3">>},
     raise |-> BOOLEAN, faults |-> {FALSE}, lookups |-> {FALSE}]

\* a scrape of city Y and an update of the initial data, both without failures
ScrapeEnv ==
    [JobsEnv EXCEPT !.routes = {"scrape"}, !.cities = {"Y"}, !.page_ends = {None, Some(1)},
                    !.pages = {[t \in ContentTasks |-> 0]}, !.raise = {FALSE}]
ProfileEnv ==
    [JobsEnv EXCEPT !.routes = {"update_initial"}, !.profiles = {[a \in AgentIds |-> 0]},
                    !.raise = {FALSE}]

\* Concurrent requests. r1, if it arrives, is a scrape of city Y that is served
\* before the others arrive; r2 and r3 are any requests, with or without a
\* page_end, and overlap.
ConcurrentEnv(r) ==
    IF r = "r1" THEN [ScrapeEnv EXCEPT !.first = TRUE]
    ELSE [JobsEnv EXCEPT !.overlap = {"r2", "r3"}, !.page_ends = {None, Some(1)}]

Next == \E r \in Reqs : Step(r, ConcurrentEnv(r))

Spec == Init /\ [][Next]_vars

\* Requests served one after the other, in any order: r1 is a scrape of city Y
\* and r2 an update of the initial data, both without failures; r3 is any
\* request in any surrounding. Any of them may not arrive.
Env(r) == IF r = "r1" THEN ScrapeEnv ELSE IF r = "r2" THEN ProfileEnv ELSE FullEnv

NextOne == \E r \in Reqs : Step(r, Env(r))

SpecOne == Init /\ [][NextOne]_vars

-----------------------------------------------------------------------------
(* scraper/scrape.py: retry, attempt by attempt *)

\* the decorator's retries parameter ranges over 1..MaxRetries
MaxRetries == 4

\* the functions the module wraps, and the value of use_premium an invocation
\* gets when the wrapper passes none
RetriedFuncs == {"get_max_pages", "handle_individual", "handle_page"}
default_use_premium(func) == func = "handle_individual"

\* what a successful invocation returns
CallValue == Some(7)

\* a call of func wrapped by retry(retries=n, return_value=v), not yet invoked
NewCall(func, n, v) ==
    [NoCall EXCEPT !.func = func, !.retries = n, !.return_value = v,
                   !.attempt = 1, !.pc = "try"]

\* use_premium as the invocation of the current attempt receives it
use_premium(c) == IF c.kwargs # None THEN c.kwargs[1] ELSE default_use_premium(c.func)

\* wrapper: `return func(*args, **kwargs)` of an attempt that does not raise
wrapper_try ==
    /\ call.pc = "try"
    /\ call' = [call EXCEPT !.modes = Append(@, use_premium(call)),
                            !.pc = "returned", !.result = CallValue]
    /\ UNCHANGED <<db, scrape_lock, pc, req, job_status, agents, i, tx, batch, last,
                   response, hist>>

\* a wrapper that goes round once more than retries
wrapper_except_once_more ==
    /\ call.pc = "try"
    /\ call' = [call EXCEPT
          !.modes = Append(@, use_premium(call)),
          !.raised = @ + 1,
          !.kwargs = IF call.attempt <= call.retries /\ call.func = "handle_page"
                     THEN Some(TRUE) ELSE @,
          !.pc = IF call.attempt <= call.retries THEN "sleep" ELSE "returned",
          !.result = IF call.attempt <= call.retries THEN @ ELSE call.return_value]
    /\ UNCHANGED <<db, scrape_lock, pc, req, job_status, agents, i, tx, batch, last,
                   response, hist>>

\* a wrapper whose except branch leaves kwargs as they are
wrapper_except_same_mode ==
    /\ call.pc = "try"
    /\ call' = [call EXCEPT
          !.modes = Append(@, use_premium(call)),
          !.raised = @ + 1,
          !.pc = IF call.attempt < call.retries THEN "sleep" ELSE "returned",
          !.result = IF call.attempt < call.retries THEN @ ELSE call.return_value]
    /\ UNCHANGED <<db, scrape_lock, pc, req, job_status, agents, i, tx, batch, last,
                   response, hist>>

\* wrapper: an attempt that raises, and the except branch. After the last
\* attempt the loop ends and the wrapper returns return_value.
wrapper_except ==
    /\ call.pc = "try"
    /\ call' = [call EXCEPT
          !.modes = Append(@, use_premium(call)),
          !.raised = @ + 1,
          !.kwargs = IF call.attempt < call.retries /\ call.func = "handle_page"
                     THEN Some(TRUE) ELSE @,
          !.pc = IF call.attempt < call.retries THEN "sleep" ELSE "returned",
          !.result = IF call.attempt < call.retries THEN @ ELSE call.return_value]
    /\ UNCHANGED <<db, scrape_lock, pc, req, job_status, agents, i, tx, batch, last,
                   response, hist>>

\* wrapper: time.sleep(3), then the next attempt of the loop
wrapper_sleep ==
    /\ call.pc = "sleep"
    /\ call' = [call EXCEPT !.slept = @ + 1, !.attempt = @ + 1, !.pc = "try"]
    /\ UNCHANGED <<db, scrape_lock, pc, req, job_status, agents, i, tx, batch, last,
                   response, hist>>

\* A wrapped call from its first attempt to its return, for every wrapped
\* function, every retries and every attempt raising or not
InitRetry ==
    /\ db = EmptyDB
    /\ scrape_lock = None
    /\ pc = [r \in Reqs |-> "idle"]
    /\ req = [r \in Reqs |-> NoReq]
    /\ job_status = [r \in Reqs |-> "None"]
    /\ agents = [r \in Reqs |-> <<>>]
    /\ i = [r \in Reqs |-> 0]
    /\ tx = [r \in Reqs |-> EmptyTx]
    /\ batch = [r \in Reqs |-> EmptyBatch]
    /\ last = [r \in Reqs |-> None]
    /\ response = [r \in Reqs |-> 0]
    /\ hist = [r \in Reqs |-> NoHist]
    /\ \E func \in RetriedFuncs, n \in 1..MaxRetries, v \in {None, Some(max_pages_cap)} :
          call = NewCall(func, n, v)

NextRetry == wrapper_try \/ wrapper_except \/ wrapper_sleep

SpecRetry == InitRetry /\ [][NextRetry]_vars

-----------------------------------------------------------------------------
(* database/async_inserter.py: insert_agents on an agent that is stored *)

\* pages and rankings of the stored and of the incoming record
MaxPage == 3
MaxRank == 2

\* the Agent row of a1 as an earlier ingestion left it; ranking, page and
\* specialties are nullable columns, the model leaves each number out or draws it
StoredAgents ==
    [full_name : {Some("o")}, email : {Some("e")},
     ranking : {None} \cup {Some(k) : k \in 1..MaxRank},
     page : {None} \cup {Some(p) : p \in 1..MaxPage},
     specialties : SUBSET Range(agent_types_default)]

\* the Agent row of a2, which shares a listing with a1
StoredOther ==
    [full_name |-> Some("o"), email |-> Some("e"), ranking |-> Some(1), page |-> Some(1),
     specialties |-> {"listing-agent"}]

\* a1 and a2 stored for city Y. a1 has a phone, a website and the listings z1
\* and z2; z1 is linked to a2 as well, and its fields were read from a2's profile.
StoredDB(og) ==
    [insert_status(insert_status(EmptyDB, "Y", "COMPLETED"), "X", "PENDING") EXCEPT
        !.agent = Put(Put(@, "a1", og), "a2", StoredOther),
        !.agent_city = {<<"a1", "Y">>, <<"a2", "Y">>},
        !.phone = {<<"a1", "p0", "cell">>},
        !.website = {<<"a1", "w0">>},
        !.listing = Put(Put(@, "z1", [data |-> "a2"]), "z2", [data |-> "a1"]),
        !.listing_agent = {<<"z1", "a1">>, <<"z2", "a1">>, <<"z1", "a2">>}]

\* the contact fields of an incoming record: none, a primary phone alone, or
\* the phones, websites and listings of a profile with repeated values
Contacts ==
    {[phoneNumber |-> None, phoneNumbers |-> None, websites |-> <<>>, listings |-> <<>>],
     [phoneNumber |-> Some("p1"), phoneNumbers |-> None, websites |-> <<>>, listings |-> <<>>],
     [phoneNumber |-> Some("p1"),
      phoneNumbers |-> Some([cell |-> Some("p1"), brokerage |-> None, business |-> Some("p2")]),
      websites |-> <<"w1", "w1">>, listings |-> <<"z1">>]}

\* the incoming records of a1
IncomingAgents ==
    {[Stub("a1", t, p, k) EXCEPT !.phoneNumber = c.phoneNumber,
                                 !.phoneNumbers = c.phoneNumbers,
                                 !.websites = c.websites,
                                 !.listings = c.listings] :
        t \in Range(agent_types_default), p \in 1..MaxPage, k \in 1..MaxRank, c \in Contacts}

\* A job for city X whose fetch phase returned one record of the stored agent
InitMerge ==
    /\ \E og \in StoredAgents : db = StoredDB(og)
    /\ \E agent \in IncomingAgents : agents = [r \in Reqs |-> IF r = "r1" THEN <<Some(agent)>> ELSE <<>>]
    /\ \E update_existing \in BOOLEAN :
          req = [r \in Reqs |-> IF r = "r1"
                                THEN [NoReq EXCEPT !.route = "scrape", !.city = "X",
                                                   !.update_existing = update_existing,
                                                   !.agent_types = agent_types_default]
                                ELSE NoReq]
    /\ scrape_lock = None
    /\ pc = [r \in Reqs |-> IF r = "r1" THEN "insert" ELSE "idle"]
    /\ job_status = [r \in Reqs |-> IF r = "r1" THEN "NOT_SCRAPED" ELSE "None"]
    /\ i = [r \in Reqs |-> 0]
    /\ tx = [r \in Reqs |-> EmptyTx]
    /\ batch = [r \in Reqs |-> EmptyBatch]
    /\ last = [r \in Reqs |-> None]
    /\ response = [r \in Reqs |-> 0]
    /\ hist = [r \in Reqs |-> IF r = "r1" THEN [NoHist EXCEPT !.pending = TRUE, !.fetched = TRUE]
                              ELSE NoHist]
    /\ call = NoCall

NextMerge ==
    \/ insert_agents_begin("r1")
    \/ insert_agents_prepare("r1")
    \/ insert_agents_write("r1", ScrapeEnv)
    \/ insert_agents_complete("r1")
    \/ handle_job_reply("r1", ScrapeEnv)

SpecMerge == InitMerge /\ [][NextMerge]_vars

-----------------------------------------------------------------------------
(* database/async_inserter.py: insert_updated_listings on agents with listings *)

\* the zpids of the profiles the run fetched, and how many listings a profile shows
ProfileZpids == {"z1", "z2", "z3"}
MaxListings == 2

\* the pastSales + forRentListing + forSaleListing of a fetched profile
ListingLists == UNION {[1..n -> ProfileZpids] : n \in 0..MaxListings}

\* a1 and a2 stored for city Y, whose run of profile fetches is in progress:
\* a1 is linked to z1 and z2, a2 to z2
ListedDB ==
    [insert_status(EmptyDB, "Y", "PENDING") EXCEPT
        !.agent = Put(Put(@, "a1", StoredOther), "a2", StoredOther),
        !.agent_city = {<<"a1", "Y">>, <<"a2", "Y">>},
        !.phone = {<<"a1", "p0", "cell">>},
        !.website = {<<"a1", "w0">>},
        !.listing = Put(Put(@, "z1", [data |-> "a1"]), "z2", [data |-> "a2"]),
        !.listing_agent = {<<"z1", "a1">>, <<"z2", "a1">>, <<"z2", "a2">>}]

\* the record handle_individual returns for agent a when its profile shows ls
Profile(a, ls) == [handle_individual_body(Bare(a)) EXCEPT !.listings = ls]

\* An /update/listings job for city Y whose fetch phase returned the profile
\* of a1, or the profiles of a1 and a2
InitListings ==
    /\ db = ListedDB
    /\ \E l1 \in ListingLists, l2 \in ListingLists, both \in BOOLEAN :
          agents = [r \in Reqs |->
                       IF r # "r1" THEN <<>>
                       ELSE IF both THEN <<Some(Profile("a1", l1)), Some(Profile("a2", l2))>>
                       ELSE <<Some(Profile("a1", l1))>>]
    /\ req = [r \in Reqs |-> IF r = "r1"
                             THEN [NoReq EXCEPT !.route = "update_listings", !.city = "Y",
                                                !.data = <<"a1", "a2">>]
                             ELSE NoReq]
    /\ scrape_lock = None
    /\ pc = [r \in Reqs |-> IF r = "r1" THEN "insert" ELSE "idle"]
    /\ job_status = [r \in Reqs |-> IF r = "r1" THEN "COMPLETED" ELSE "None"]
    /\ i = [r \in Reqs |-> 0]
    /\ tx = [r \in Reqs |-> EmptyTx]
    /\ batch = [r \in Reqs |-> EmptyBatch]
    /\ last = [r \in Reqs |-> None]
    /\ response = [r \in Reqs |-> 0]
    /\ hist = [r \in Reqs |-> IF r = "r1" THEN [NoHist EXCEPT !.pending = TRUE, !.fetched = TRUE]
                              ELSE NoHist]
    /\ call = NoCall

NextListings ==
    \/ insert_updated_listings_prepare("r1")
    \/ insert_updated_listings_write("r1", ScrapeEnv)
    \/ update_listings_reply("r1", ScrapeEnv)

SpecListings == InitListings /\ [][NextListings]_vars

-----------------------------------------------------------------------------
(* database/async_inserter.py: delete_agent and delete_city *)

\* The DELETE of an Agent row. The tables of the database are not created by
\* the code under src/: the rows that reference the agent (Agent-City, Phone,
\* Website) go with it, as the deletions of the tests require.
delete_agent_row(d, a) ==
    [d EXCEPT !.agent = Restrict(@, DOMAIN @ \ {a}),
              !.agent_city = {l \in @ : l[1] # a},
              !.phone = {x \in @ : x[1] # a},
              !.website = {w \in @ : w[1] # a}]

\* The DELETE of a City row, with the Status row and the Agent-City rows that
\* reference it
delete_city_row(d, c) ==
    [d EXCEPT !.city = @ \ {c},
              !.status = Restrict(@, DOMAIN @ \ {c}),
              !.agent_city = {l \in @ : l[2] # c}]

\* a delete_agent that leaves the listings alone
delete_agent_only(d, a) == delete_agent_row(d, a)

\* delete_agent: the agent's Listing-Agent rows, the Listing rows that no link
\* references, the Agent row, and the commit
delete_agent(d, a) ==
    delete_agent_row(View(d, delete_listing_links(d, EmptyTx, a)), a)

\* `for agent_id in agent_ids: await self.delete_agent(agent_id)`, the first n of them
RECURSIVE delete_agents(_, _, _)
delete_agents(d, agent_ids, n) ==
    IF n = 0 THEN d ELSE delete_agent(delete_agents(d, agent_ids, n - 1), agent_ids[n])

\* a delete_city that goes on when the city has no agent
delete_city_unchecked(d, city, failed_at) ==
    IF upper(city) \notin d.city THEN <<d, 404>>
    ELSE <<delete_city_row(delete_agents(d, agents_of_city(d, city),
                                         Len(agents_of_city(d, city))), upper(city)), 200>>

\* delete_city: <<the rows afterwards, the status code of the outcome>>.
\* failed_at = k > 0: the k-th delete_agent raises, the deletions before it
\* are committed.
delete_city(d, city, failed_at) ==
    LET agent_ids == agents_of_city(d, city)
    IN  IF upper(city) \notin d.city THEN <<d, 404>>
        ELSE IF agent_ids = <<>> THEN <<d, 404>>
        ELSE IF failed_at > 0
             THEN <<delete_agents(d, agent_ids, Min(failed_at, Len(agent_ids)) - 1), 500>>
        ELSE <<delete_city_row(delete_agents(d, agent_ids, Len(agent_ids)), upper(city)), 200>>

\* The DELETE of a Listing row in a database whose Listing-Agent rows go with
\* the Listing they reference ("Will delete the junction table entries as well")
delete_listing_row(d, zpid) ==
    [d EXCEPT !.listing = Restrict(@, DOMAIN @ \ {zpid}),
              !.listing_agent = {l \in @ : l[1] # zpid}]

\* a delete_listing in a database that does not enforce the reference of a link
\* to its Listing
delete_listing_unreferenced(d, zpid, cascade) ==
    <<[d EXCEPT !.listing = Restrict(@, DOMAIN @ \ {zpid})], 200>>

\* delete_listing: <<the rows afterwards, the status code of the outcome>>.
\* cascade: the foreign key of listing_agent.listing_id deletes the links with
\* the Listing; otherwise (ForeignKey('listing.zpid') as models.py declares it)
\* the DELETE of a Listing that has a link raises, and the handler rolls back.
delete_listing(d, zpid, cascade) ==
    IF cascade THEN <<delete_listing_row(d, zpid), 200>>
    ELSE IF \E l \in d.listing_agent : l[1] = zpid THEN <<d, 500>>
    ELSE <<[d EXCEPT !.listing = Restrict(@, DOMAIN @ \ {zpid})], 200>>

\* DELETE /listing/{listing_id}
delete_listing_route(r, E) ==
    /\ pc[r] = "idle"
    /\ arrives(r, E)
    /\ \E zpid \in Zpids, cascade \in BOOLEAN, failed \in E.faults :
          LET out == IF failed THEN <<db, 500>> ELSE delete_listing(db, zpid, cascade)
          IN  /\ req' = [req EXCEPT ![r] = [NoReq EXCEPT !.route = "delete_listing",
                                                  !.data = <<zpid>>]]
              /\ db' = out[1]
              /\ response' = [response EXCEPT ![r] = out[2]]
              /\ hist' = [hist EXCEPT ![r].removed =
                             {l \in db.listing_agent : l \notin out[1].listing_agent}]
    /\ pc' = [pc EXCEPT ![r] = "done"]
    /\ UNCHANGED <<scrape_lock, job_status, agents, i, tx, batch, last, call>>

\* DELETE /agent/{agent_id}
delete_agent_route(r, E) ==
    /\ pc[r] = "idle"
    /\ arrives(r, E)
    /\ \E a \in AgentIds, failed \in E.faults :
          /\ req' = [req EXCEPT ![r] = [NoReq EXCEPT !.route = "delete_agent", !.data = <<a>>]]
          /\ db' = IF failed THEN db ELSE delete_agent(db, a)
          /\ response' = [response EXCEPT ![r] = IF failed THEN 500 ELSE 200]
    /\ pc' = [pc EXCEPT ![r] = "done"]
    /\ UNCHANGED <<scrape_lock, job_status, agents, i, tx, batch, last, hist, call>>

\* a call of delete_city
delete_city_call(r, E) ==
    /\ pc[r] = "idle"
    /\ arrives(r, E)
    /\ \E city \in E.cities, failed_at \in {0} \cup {k \in 1..Cardinality(AgentIds) : TRUE \in E.faults} :
          LET out == delete_city(db, city, failed_at)
          IN  /\ req' = [req EXCEPT ![r] = [NoReq EXCEPT !.route = "delete_city", !.city = city]]
              /\ db' = out[1]
              /\ response' = [response EXCEPT ![r] = out[2]]
    /\ pc' = [pc EXCEPT ![r] = "done"]
    /\ UNCHANGED <<scrape_lock, job_status, agents, i, tx, batch, last, hist, call>>

\* the links of the stored agents to cities and to listings
CityLinks(cs) == {f \in [AgentIds -> SUBSET cs] : \A a \in AgentIds : f[a] # {}}
ListingLinks == SUBSET {<<"z1", "a1">>, <<"z1", "a2">>, <<"z2", "a2">>, <<"z2", "a3">>}

\* a1, a2 and a3 stored, each for one or more of the cities cs, a1 with a
\* phone and a website; every stored Listing has a link
LinkedDB(cs, cl, ll) ==
    [EmptyDB EXCEPT
        !.city = cs,
        !.status = [c \in cs |-> "COMPLETED"],
        !.agent = [a \in AgentIds |-> StoredOther],
        !.agent_city = {<<a, c>> : a \in AgentIds, c \in cs} \cap
                       UNION {{<<a, c>> : c \in cl[a]} : a \in AgentIds},
        !.phone = {<<"a1", "p0", "cell">>},
        !.website = {<<"a1", "w0">>},
        !.listing = [z \in {l[1] : l \in ll} |-> [data |-> "a2"]],
        !.listing_agent = ll]

InitDelete ==
    /\ \E cs \in {{"X"}, {"X", "Y"}} : \E cl \in CityLinks(cs), ll \in ListingLinks :
          db = LinkedDB(cs, cl, ll)
    /\ scrape_lock = None
    /\ pc = [r \in Reqs |-> "idle"]
    /\ req = [r \in Reqs |-> NoReq]
    /\ job_status = [r \in Reqs |-> "None"]
    /\ agents = [r \in Reqs |-> <<>>]
    /\ i = [r \in Reqs |-> 0]
    /\ tx = [r \in Reqs |-> EmptyTx]
    /\ batch = [r \in Reqs |-> EmptyBatch]
    /\ last = [r \in Reqs |-> None]
    /\ response = [r \in Reqs |-> 0]
    /\ hist = [r \in Reqs |-> NoHist]
    /\ call = NoCall

\* r1 and r2 delete without a fault, one after the other; r3 may meet one
DeleteEnv(r) == [FullEnv EXCEPT !.faults = IF r = "r3" THEN BOOLEAN ELSE {FALSE}]

NextDelete ==
    \E r \in Reqs : delete_agent_route(r, DeleteEnv(r)) \/ delete_city_call(r, DeleteEnv(r))

SpecDelete == InitDelete /\ [][NextDelete]_vars

\* DELETE /listing/{listing_id} requests, one after the other
NextDeleteListing == \E r \in Reqs : delete_listing_route(r, DeleteEnv(r))

SpecDeleteListing == InitDelete /\ [][NextDeleteListing]_vars

-----------------------------------------------------------------------------
(* database/async_inserter.py: insert_status, statement by statement *)

\* the statuses the program writes
WrittenStatuses == {"PENDING", "COMPLETED", "ERROR"}

\* a call of insert_status(city, state, status) on a session of its own
insert_status_call(r, E) ==
    /\ pc[r] = "idle"
    /\ arrives(r, E)
    /\ \E city \in E.cities, status \in WrittenStatuses :
          req' = [req EXCEPT ![r] = [NoReq EXCEPT !.route = "insert_status", !.city = city,
                                                  !.data = <<status>>]]
    /\ pc' = [pc EXCEPT ![r] = "insert_city"]
    /\ UNCHANGED <<db, scrape_lock, job_status, agents, i, tx, batch, last, response, hist, call>>

\* insert_status: `city_id = await self.insert_city(city, state, session)`. The
\* City row is committed here. When a statement raises, insert_city rolls back
\* and returns None, and insert_status returns.
insert_status_city(r, E) ==
    /\ pc[r] = "insert_city"
    /\ req[r].route = "insert_status"
    /\ \E raised \in E.faults :
          IF raised
          THEN /\ db' = db
               /\ pc' = [pc EXCEPT ![r] = "failed"]
          ELSE /\ db' = insert_city(db, req[r].city)
               /\ pc' = [pc EXCEPT ![r] = "upsert"]
    /\ UNCHANGED <<scrape_lock, req, job_status, agents, i, tx, batch, last, response, hist, call>>

\* insert_status: the upsert of the Status row and the commit, or the except
\* branch with its rollback
insert_status_upsert(r, E) ==
    /\ pc[r] = "upsert"
    /\ req[r].route = "insert_status"
    /\ \E raised \in E.faults :
          IF raised
          THEN /\ db' = db
               /\ pc' = [pc EXCEPT ![r] = "failed"]
          ELSE /\ db' = [db EXCEPT !.status = Put(@, upper(req[r].city), req[r].data[1])]
               /\ pc' = [pc EXCEPT ![r] = "done"]
    /\ UNCHANGED <<scrape_lock, req, job_status, agents, i, tx, batch, last, response, hist, call>>

\* calls of insert_status that overlap; a statement of r3 may raise
StatusEnv(r) ==
    [FullEnv EXCEPT !.overlap = Reqs, !.faults = IF r = "r3" THEN BOOLEAN ELSE {FALSE}]

NextStatus ==
    \E r \in Reqs : \/ insert_status_call(r, StatusEnv(r))
                    \/ insert_status_city(r, StatusEnv(r))
                    \/ insert_status_upsert(r, StatusEnv(r))

SpecStatus == Init /\ [][NextStatus]_vars

-----------------------------------------------------------------------------
(* scraper/scrape.py: remove_duplicates on lists of page results *)

\* the longest list of page results
MaxInput == 3

\* the agents a page fetch may return: an agent seen in a category, on a page
PageResults ==
    {Stub(a, t, p, 1) : a \in AgentIds, t \in {"listing-agent", "buyers-agent"}, p \in 1..2}

RECURSIVE ListsOf(_, _)
ListsOf(S, n) ==
    IF n = 0 THEN {<<>>}
    ELSE LET shorter == ListsOf(S, n - 1)
         IN  shorter \cup {Append(l, x) : l \in {m \in shorter : Len(m) = n - 1}, x \in S}

InitUnique ==
    /\ db = EmptyDB
    /\ scrape_lock = None
    /\ pc = [r \in Reqs |-> "idle"]
    /\ \E l \in ListsOf(PageResults, MaxInput) :
          req = [r \in Reqs |-> IF r = "r1" THEN [NoReq EXCEPT !.route = "scrape", !.data = l]
                                ELSE NoReq]
    /\ job_status = [r \in Reqs |-> "None"]
    /\ agents = [r \in Reqs |-> <<>>]
    /\ i = [r \in Reqs |-> 0]
    /\ tx = [r \in Reqs |-> EmptyTx]
    /\ batch = [r \in Reqs |-> EmptyBatch]
    /\ last = [r \in Reqs |-> None]
    /\ response = [r \in Reqs |-> 0]
    /\ hist = [r \in Reqs |-> NoHist]
    /\ call = NoCall

\* agent_data = remove_duplicates(agents); response: the number the function
\* logs as removed
remove_duplicates_call(r) ==
    /\ pc[r] = "idle"
    /\ req[r].route = "scrape"
    /\ agents' = [agents EXCEPT ![r] = remove_duplicates(req[r].data)]
    /\ response' = [response EXCEPT ![r] = Len(req[r].data) - Len(agents'[r])]
    /\ pc' = [pc EXCEPT ![r] = "unique"]
    /\ UNCHANGED <<db, scrape_lock, req, job_status, i, tx, batch, last, hist, call>>

NextUnique == \E r \in Reqs : remove_duplicates_call(r)

SpecUnique == InitUnique /\ [][NextUnique]_vars

-----------------------------------------------------------------------------
(* scraper/scrape.py: the fan-out of scrape, task by task *)

\* the totals a first result page may report
Totals == {0, 1, per_page, per_page + 1, per_page * max_pages_cap, per_page * max_pages_cap + 1}

\* payload.page_start and payload.page_end: any int, or None
PageStarts == {None, Some(0), Some(1), Some(2)}
PageEnds == {None, Some(1), Some(2)}

\* payload.agent_types: a list of categories, or None
AgentTypeLists == {None, Some(<<"listing-agent">>), Some(<<"buyers-agent", "listing-agent">>)}

\* scrape has been called and is about to enter `for agent_type in agent_types`
InitFanOut ==
    /\ db = EmptyDB
    /\ scrape_lock = None
    /\ pc = [r \in Reqs |-> IF r = "r1" THEN "category" ELSE "idle"]
    /\ \E page_start \in PageStarts, page_end \in PageEnds, agent_types \in AgentTypeLists :
          req = [r \in Reqs |->
                    IF r = "r1"
                    THEN [NoReq EXCEPT !.route = "scrape", !.page_start = page_start,
                                       !.page_end = page_end,
                                       !.agent_types = IF agent_types # None THEN agent_types[1]
                                                       ELSE agent_types_default]
                    ELSE NoReq]
    /\ job_status = [r \in Reqs |-> "None"]
    /\ agents = [r \in Reqs |-> <<>>]
    /\ i = [r \in Reqs |-> IF r = "r1" THEN 1 ELSE 0]
    /\ tx = [r \in Reqs |-> EmptyTx]
    /\ batch = [r \in Reqs |-> EmptyBatch]
    /\ last = [r \in Reqs |-> None]
    /\ response = [r \in Reqs |-> 0]
    /\ hist = [r \in Reqs |-> NoHist]
    /\ call = NoCall

\* start = page_start if page_start is not None else 1
scrape_start(payload) == IF payload.page_start # None THEN payload.page_start[1] ELSE 1

\* `if page_end is None: end = get_max_pages(city, state, agent_type)`;
\* last[r]: page_number and end of the range being submitted
scrape_probe(r) ==
    /\ pc[r] = "category"
    /\ i[r] <= Len(req[r].agent_types)
    /\ req[r].page_end = None
    /\ \E total \in Totals, fails \in Fails :
          LET end == retry(fails, get_max_pages_body(total), max_pages_cap)
          IN  /\ hist' = [hist EXCEPT ![r].probes =
                             Append(@, [agent_type |-> req[r].agent_types[i[r]], total |-> total,
                                        fails |-> fails, max_pages |-> end])]
              /\ last' = [last EXCEPT ![r] = Some(<<scrape_start(req[r]), end>>)]
    /\ pc' = [pc EXCEPT ![r] = "pages"]
    /\ UNCHANGED <<db, scrape_lock, req, job_status, agents, i, tx, batch, response, call>>

\* end = page_end
scrape_page_end(r) ==
    /\ pc[r] = "category"
    /\ i[r] <= Len(req[r].agent_types)
    /\ req[r].page_end # None
    /\ last' = [last EXCEPT ![r] = Some(<<scrape_start(req[r]), req[r].page_end[1]>>)]
    /\ pc' = [pc EXCEPT ![r] = "pages"]
    /\ UNCHANGED <<db, scrape_lock, req, job_status, agents, i, tx, batch, response, hist, call>>

\* one iteration of `for page_number in range(start, end + 1)`: page_executor.submit
scrape_submit(r) ==
    /\ pc[r] = "pages"
    /\ last[r][1][1] <= last[r][1][2]
    /\ hist' = [hist EXCEPT ![r].futures = Append(@, <<req[r].agent_types[i[r]], last[r][1][1]>>)]
    /\ last' = [last EXCEPT ![r] = Some(<<last[r][1][1] + 1, last[r][1][2]>>)]
    /\ UNCHANGED <<db, scrape_lock, pc, req, job_status, agents, i, tx, batch, response, call>>

\* the range is exhausted: the next agent_type
scrape_next_type(r) ==
    /\ pc[r] = "pages"
    /\ last[r][1][1] > last[r][1][2]
    /\ i' = [i EXCEPT ![r] = @ + 1]
    /\ last' = [last EXCEPT ![r] = None]
    /\ pc' = [pc EXCEPT ![r] = "category"]
    /\ UNCHANGED <<db, scrape_lock, req, job_status, agents, tx, batch, response, hist, call>>

\* concurrent.futures.wait(futures)
scrape_wait(r) ==
    /\ pc[r] = "category"
    /\ i[r] > Len(req[r].agent_types)
    /\ pc' = [pc EXCEPT ![r] = "submitted"]
    /\ UNCHANGED <<db, scrape_lock, req, job_status, agents, i, tx, batch, last, response, hist, call>>

NextFanOut ==
    \E r \in Reqs : \/ scrape_probe(r)
                    \/ scrape_page_end(r)
                    \/ scrape_submit(r)
                    \/ scrape_next_type(r)
                    \/ scrape_wait(r)

SpecFanOut == InitFanOut /\ [][NextFanOut]_vars

-----------------------------------------------------------------------------
(* scraper/scrape.py: the page tasks of scrape complete in any order *)

\* the tasks scrape submits for the categories from the k-th on, in submission order
RECURSIVE submitted_tasks(_, _)
submitted_tasks(payload, k) ==
    IF k > Len(payload.agent_types) THEN <<>>
    ELSE LET agent_type == payload.agent_types[k]
             end == IF payload.page_end = None THEN get_max_pages(agent_type, 0)
                    ELSE payload.page_end[1]
             start == scrape_start(payload)
         IN  [p \in 1..(IF end >= start THEN end - start + 1 ELSE 0) |->
                 <<agent_type, start + p - 1>>]
             \o submitted_tasks(payload, k + 1)

\* scrape has submitted its page tasks and none has completed
InitGather ==
    /\ db = EmptyDB
    /\ scrape_lock = Some("r1")
    /\ pc = [r \in Reqs |-> IF r = "r1" THEN "waiting" ELSE "idle"]
    /\ \E page_end \in {None, Some(1)} :
          req = [r \in Reqs |->
                    IF r = "r1"
                    THEN [NoReq EXCEPT !.route = "scrape", !.page_end = page_end,
                                       !.agent_types = agent_types_default]
                    ELSE NoReq]
    /\ job_status = [r \in Reqs |-> "None"]
    /\ agents = [r \in Reqs |-> <<>>]
    /\ i = [r \in Reqs |-> 0]
    /\ tx = [r \in Reqs |-> EmptyTx]
    /\ batch = [r \in Reqs |-> EmptyBatch]
    /\ last = [r \in Reqs |-> None]
    /\ response = [r \in Reqs |-> 0]
    /\ hist = [r \in Reqs |-> IF r = "r1"
                              THEN [NoHist EXCEPT !.pending = TRUE,
                                                  !.futures = submitted_tasks(req[r], 1)]
                              ELSE NoHist]
    /\ call = NoCall

\* the tasks of r that have completed
completed(h) == {h.done[k].task : k \in 1..Len(h.done)}

\* future.result() of a completed task
result_of(h, task) == (CHOOSE d \in Range(h.done) : d.task = task).result

\* a worker of the pool ends a task: handle_page returned the agents of the
\* page, or None when all its attempts failed
handle_page_done(r, E) ==
    /\ pc[r] = "waiting"
    /\ \E task \in Range(hist[r].futures) \ completed(hist[r]), fails \in {0, retries} :
          hist' = [hist EXCEPT ![r].done =
                      Append(@, [task |-> task, result |-> handle_page(task[1], task[2], fails)])]
    /\ UNCHANGED <<db, scrape_lock, pc, req, job_status, agents, i, tx, batch, last, response, call>>

\* a collection of the results in the order in which the tasks completed
RECURSIVE collect_as_completed(_, _)
collect_as_completed(h, k) ==
    IF k > Len(h.done) THEN <<>>
    ELSE (IF h.done[k].result # None /\ h.done[k].result[1] # <<>>
          THEN h.done[k].result[1] ELSE <<>>)
         \o collect_as_completed(h, k + 1)

\* `for future in futures: result = future.result(); if result: agent_data.extend(result)`
RECURSIVE collect_results(_, _)
collect_results(h, k) ==
    IF k > Len(h.futures) THEN <<>>
    ELSE LET result == result_of(h, h.futures[k])
         IN  (IF result # None /\ result[1] # <<>> THEN result[1] ELSE <<>>)
             \o collect_results(h, k + 1)

\* concurrent.futures.wait(futures) returns; the results are collected and
\* remove_duplicates is applied
scrape_collect(r) ==
    /\ pc[r] = "waiting"
    /\ Range(hist[r].futures) \subseteq completed(hist[r])
    /\ agents' = [agents EXCEPT ![r] = Wrap(remove_duplicates(collect_results(hist[r], 1)))]
    /\ hist' = [hist EXCEPT ![r].fetched = TRUE]
    /\ pc' = [pc EXCEPT ![r] = "fetched"]
    /\ UNCHANGED <<db, scrape_lock, req, job_status, i, tx, batch, last, response, call>>

NextGather ==
    \E r \in Reqs : \/ handle_page_done(r, JobsEnv)
                    \/ scrape_collect(r)

SpecGather == InitGather /\ [][NextGather]_vars

-----------------------------------------------------------------------------
(* database/async_inserter.py: the write steps of a batch, statement by statement *)

\* the tables the six write steps insert into
StepNames == <<"agent", "agent_city", "phone", "website", "listing", "listing_agent">>

\* the write step insert_agents is at: last[r] once a step of the batch was passed
step_at(r) == IF last[r] = None THEN 1 ELSE last[r][1]

\* the statements a failing step is followed by: insert_status, whose commit is
\* reached when the transaction is still usable, and session.rollback()
except_statements(aborted) ==
    IF aborted THEN <<"raised", "rollback">> ELSE <<"raised", "commit", "rollback">>

\* insert_agents: one `if <step>_data: try: await session.execute(stmt)` of the
\* batch at i, with its except branch when the statement raises
insert_agents_execute(r, E) ==
    /\ pc[r] = "write"
    /\ req[r].route = "scrape"
    /\ step_at(r) \in Steps
    /\ LET n == step_at(r) IN
       IF ~executed(batch[r], n)
       THEN /\ last' = [last EXCEPT ![r] = Some(n + 1)]
            /\ UNCHANGED <<db, tx, batch, i, pc, hist>>
       ELSE \E raised \in E.faults, aborted \in BOOLEAN :
               /\ ~raised => ~aborted
               /\ IF raised
                  THEN /\ db' = write_outcome(db, tx[r], batch[r], req[r].city, n, aborted)
                       /\ hist' = [hist EXCEPT ![r].failed = @ \cup {i[r]},
                                               ![r].statements = @ \o except_statements(aborted)]
                       /\ tx' = [tx EXCEPT ![r] = EmptyTx]
                       /\ batch' = [batch EXCEPT ![r] = EmptyBatch]
                       /\ i' = [i EXCEPT ![r] = @ + batch_size]
                       /\ last' = [last EXCEPT ![r] = None]
                       /\ pc' = [pc EXCEPT ![r] = after_batch(agents[r], i[r])]
                  ELSE /\ hist' = [hist EXCEPT ![r].statements = Append(@, StepNames[n])]
                       /\ last' = [last EXCEPT ![r] = Some(n + 1)]
                       /\ UNCHANGED <<db, tx, batch, i, pc>>
    /\ UNCHANGED <<scrape_lock, req, job_status, agents, response, call>>

\* insert_agents: await session.commit() of the batch
insert_agents_commit(r) ==
    /\ pc[r] = "write"
    /\ req[r].route = "scrape"
    /\ step_at(r) = 7
    /\ db' = write_outcome(db, tx[r], batch[r], req[r].city, 0, FALSE)
    /\ hist' = [hist EXCEPT ![r].statements = Append(@, "commit")]
    /\ tx' = [tx EXCEPT ![r] = EmptyTx]
    /\ batch' = [batch EXCEPT ![r] = EmptyBatch]
    /\ i' = [i EXCEPT ![r] = @ + batch_size]
    /\ last' = [last EXCEPT ![r] = None]
    /\ pc' = [pc EXCEPT ![r] = after_batch(agents[r], i[r])]
    /\ UNCHANGED <<scrape_lock, req, job_status, agents, response, call>>

\* a job for city X that ingests one record of a stored agent; a statement may raise
StepsEnv == [ScrapeEnv EXCEPT !.faults = BOOLEAN]

NextSteps ==
    \/ insert_agents_begin("r1")
    \/ insert_agents_prepare("r1")
    \/ insert_agents_execute("r1", StepsEnv)
    \/ insert_agents_commit("r1")
    \/ insert_agents_complete("r1")

SpecSteps == InitMerge /\ [][NextSteps]_vars

-----------------------------------------------------------------------------
(* database/async_inserter.py: db_update_initial_data on stored and unknown agents *)

\* the record update_initial_data returns for agent a: a profile with a new
\* email and the listings ls
UpdatedProfile(a, ls) == [Profile(a, ls) EXCEPT !.email = Some("new")]

\* the lists of profiles of different agents, each with no listing or with z1
ProfileLists ==
    {l \in UNION {[1..n -> {UpdatedProfile(a, ls) : a \in AgentIds, ls \in {<<>>, <<"z1">>}}] :
                     n \in 1..Cardinality(AgentIds)} :
        \A j, k \in 1..Len(l) : l[j].encodedzuid = l[k].encodedzuid => j = k}

\* A POST /update-initial-data whose fetch phase has returned the profiles of
\* some agents; a1 and a2 are stored (ListedDB), a3 is not
InitUpdate ==
    /\ db = ListedDB
    /\ \E l \in ProfileLists :
          /\ agents = [r \in Reqs |-> IF r = "r1" THEN Wrap(l) ELSE <<>>]
          /\ req = [r \in Reqs |->
                       IF r = "r1"
                       THEN [NoReq EXCEPT !.route = "update_initial",
                                          !.data = [k \in 1..Len(l) |-> l[k].encodedzuid]]
                       ELSE NoReq]
    /\ scrape_lock = None
    /\ pc = [r \in Reqs |-> IF r = "r1" THEN "insert" ELSE "idle"]
    /\ job_status = [r \in Reqs |-> "None"]
    /\ i = [r \in Reqs |-> 0]
    /\ tx = [r \in Reqs |-> EmptyTx]
    /\ batch = [r \in Reqs |-> EmptyBatch]
    /\ last = [r \in Reqs |-> None]
    /\ response = [r \in Reqs |-> 0]
    /\ hist = [r \in Reqs |-> IF r = "r1" THEN [NoHist EXCEPT !.fetched = TRUE] ELSE NoHist]
    /\ call = NoCall

NextUpdate ==
    \/ db_update_initial_data_begin("r1")
    \/ db_update_initial_data_prepare("r1")
    \/ db_update_initial_data_write("r1", StepsEnv)

SpecUpdate == InitUpdate /\ [][NextUpdate]_vars

-----------------------------------------------------------------------------
(* Properties *)

\* the positions of a request inside its fetch phase, where it holds scrape_lock
FetchPhase == {"locked", "fetching", "fetched"}

\* the status get_status reports for the city of request r
status_of(d, r) == check_status(d, req[r].city, FALSE)

\* the rows of the Agent, Agent-City, Phone, Website, Listing and Listing-Agent tables
DataRows(d) == <<d.agent, d.agent_city, d.phone, d.website, d.listing, d.listing_agent>>

\* C1: in every interleaving of /scrape, /update/listings and
\* /update-initial-data requests at most one request is in its fetch phase,
\* and that request is the holder of scrape_lock.
C1_OneFetchPhase ==
    \A r, q \in Reqs :
        /\ pc[r] \in FetchPhase /\ pc[q] \in FetchPhase => r = q
        /\ pc[r] \in FetchPhase <=> scrape_lock = Some(r)

\* a request waits for the lock while a request of another route fetches
C1_Contention ==
    \E r, q \in Reqs :
        /\ pc[r] = "fetching" /\ pc[q] = "lockwait"
        /\ req[r].route = "update_listings" /\ req[q].route # req[r].route

\* C2: of two /scrape requests for the same (city, state) that request no
\* update and both read NOT_SCRAPED, only one runs the fetch phase.
C2_OneFetchPerCity ==
    \A r, q \in Reqs :
        (/\ r # q
         /\ req[r].route = "scrape" /\ req[q].route = "scrape"
         /\ upper(req[r].city) = upper(req[q].city)
         /\ ~req[r].update_existing /\ ~req[q].update_existing
         /\ job_status[r] = "NOT_SCRAPED" /\ job_status[q] = "NOT_SCRAPED")
        => ~(hist[r].fetched /\ hist[q].fetched)

\* handle_job may start a job on the status it read
eligible(r) == req[r].update_existing \/ job_status[r] \in {"NOT_SCRAPED", "ERROR"}

\* C3: handle_job goes on to scrape_and_insert exactly when the caller
\* requested an update or the status it read is NOT_SCRAPED or ERROR. Otherwise
\* it has answered at once, 422 for COMPLETED and 409 for PENDING, and the
\* request has taken no other step: no lock, no status write, no fetch.
C3_StartsIffEligible ==
    \A r \in Reqs :
        (req[r].route = "scrape" /\ pc[r] # "idle") =>
            /\ eligible(r) => (pc[r] # "done" \/ hist[r].pending)
            /\ ~eligible(r) =>
                  /\ pc[r] = "done" /\ hist[r] = NoHist /\ scrape_lock # Some(r)
                  /\ job_status[r] = "COMPLETED" => response[r] = 422
                  /\ job_status[r] = "PENDING" => response[r] = 409

\* a request was told 'in progress' while the job it saw is fetching, and
\* another was told 'already available'
C3_Refused ==
    \E r, q \in Reqs :
        /\ req[r].route = "scrape" /\ job_status[r] = "PENDING" /\ response[r] = 409
        /\ pc[q] = "fetching" /\ upper(req[q].city) = upper(req[r].city)

\* C4: a job attempt that wrote PENDING and has returned from its ingestion
\* (scrape + insert_agents, or update_listing_data + insert_updated_listings)
\* has left the status of its city at COMPLETED or ERROR, never at PENDING.
C4_EndsCompletedOrError ==
    \A r \in Reqs :
        (pc[r] = "reply" /\ hist[r].pending) => status_of(db, r) \in {"COMPLETED", "ERROR"}

\* C5: when insert_agents has returned, the status is ERROR if a write step of
\* any batch failed, and COMPLETED only if none failed.
C5_StatusReflectsFailures ==
    \A r \in Reqs :
        (pc[r] = "reply" /\ req[r].route = "scrape" /\ agents[r] # <<>>) =>
            /\ hist[r].failed # {} => status_of(db, r) = "ERROR"
            /\ status_of(db, r) = "COMPLETED" => hist[r].failed = {}

\* C6: when a write step of the batch at i fails, the step of insert_agents
\* leaves every row of the data tables as it was before the batch (nothing the
\* batch inserted, upserted, deleted or swept is durable, and what earlier
\* batches committed stays), and insert_agents goes on to the next batch.
C6_FailedBatchLeavesNothing ==
    [][\A r \in Reqs :
          (pc[r] = "write" /\ req[r].route = "scrape" /\ i[r] \in hist'[r].failed) =>
              /\ DataRows(db') = DataRows(db)
              /\ pc'[r] = after_batch(agents[r], i[r])]_vars

\* a /scrape job on a fresh city that met no fetch failure and no write failure
\* and found at least one agent, as far as the job has come
clean_run(r, h, a) ==
    /\ req[r].route = "scrape" /\ job_status[r] = "NOT_SCRAPED"
    /\ ~h.aborted /\ h.lost = {} /\ h.failed = {}
    /\ h.fetched => a # <<>>

\* C7: during a single clean job on a fresh city the status goes from
\* NOT_SCRAPED to PENDING and from PENDING to COMPLETED and changes in no other
\* way, it is COMPLETED when the job has returned, and PENDING is written
\* before the fetch.
C7_StatusSequence ==
    /\ [](\A r \in Reqs :
            /\ (req[r].route = "scrape" /\ hist[r].fetched) => hist[r].pending
            /\ (pc[r] = "reply" /\ clean_run(r, hist[r], agents[r]))
                  => status_of(db, r) = "COMPLETED")
    /\ [][\A r \in Reqs :
            (/\ pc[r] \notin {"idle", "done"}
             /\ clean_run(r, hist'[r], agents'[r])
             /\ status_of(db', r) # status_of(db, r))
            => <<status_of(db, r), status_of(db', r)>> \in
                  {<<"NOT_SCRAPED", "PENDING">>, <<"PENDING", "COMPLETED">>}]_vars

\* C8: insert_agents and insert_updated_listings, called with an empty list,
\* set the status of the city to ERROR and return, and no Agent, Agent-City,
\* Phone, Website, Listing or Listing-Agent row is created, changed or deleted.
C8_EmptyInputRejected ==
    [][\A r \in Reqs :
          (/\ pc[r] = "insert" /\ pc'[r] # "insert"
           /\ req[r].route \in {"scrape", "update_listings"}
           /\ agents[r] = <<>>)
          => /\ status_of(db', r) = "ERROR"
             /\ DataRows(db') = DataRows(db)
             /\ pc'[r] = "reply"]_vars

\* insert_updated_listings has rejected an empty list while the store holds
\* agents with listings
C8_EmptyRejected ==
    \E r \in Reqs :
        /\ pc[r] = "reply" /\ req[r].route = "update_listings" /\ agents[r] = <<>>
        /\ status_of(db, r) = "ERROR"
        /\ db.listing_agent # {}

\* C9: once the except branch of scrape or update_listing_data has run, the
\* list it returned is empty, the status is ERROR until the job has answered,
\* and the request holds the lock no longer than its fetch phase.
C9_AbortedJob ==
    \A r \in Reqs :
        (hist[r].aborted /\ req[r].route \in {"scrape", "update_listings"}) =>
            /\ agents[r] = <<>>
            /\ pc[r] \in {"fetched", "insert", "reply"} => status_of(db, r) = "ERROR"
            /\ pc[r] \notin FetchPhase => scrape_lock # Some(r)

\* update_listing_data was aborted, and the lock is free again
C9_Aborted ==
    \E r \in Reqs :
        /\ hist[r].aborted /\ req[r].route = "update_listings"
        /\ pc[r] = "insert" /\ scrape_lock = None

\* the stubs of the submitted pages that are not lost, in submission order
RECURSIVE kept_pages(_, _, _, _)
kept_pages(agent_type, page_number, end, lost) ==
    IF page_number > end THEN <<>>
    ELSE (IF <<agent_type, page_number>> \in lost THEN <<>>
          ELSE extract_agents(SitePage(agent_type, page_number), agent_type, page_number))
         \o kept_pages(agent_type, page_number + 1, end, lost)

\* the last page of a category when its probe met mf[agent_type] failing attempts
last_page(payload, mf, agent_type) ==
    IF payload.page_end # None THEN payload.page_end[1]
    ELSE get_max_pages(agent_type, mf[agent_type])

RECURSIVE kept_stubs(_, _, _, _)
kept_stubs(payload, k, mf, lost) ==
    IF k > Len(payload.agent_types) THEN <<>>
    ELSE kept_pages(payload.agent_types[k], 1, last_page(payload, mf, payload.agent_types[k]), lost)
         \o kept_stubs(payload, k + 1, mf, lost)

\* C10: when every attempt of a page fetch failed, scrape does not take its
\* except branch and writes no status: it returns the de-duplicated stubs of
\* the pages that succeeded.
C10_LostPageKeepsJob ==
    [][\A r \in Reqs :
          (pc[r] = "fetching" /\ req[r].route = "scrape" /\ hist'[r].lost # {}) =>
              /\ ~hist'[r].aborted
              /\ db' = db
              /\ \E mf \in [Range(req[r].agent_types) -> Fails] :
                    agents'[r] = Wrap(remove_duplicates(kept_stubs(req[r], 1, mf, hist'[r].lost)))]_vars

\* a scrape lost a page and returned the agents of the other pages, the
\* status still PENDING
C10_PartialResult ==
    \E r \in Reqs :
        /\ pc[r] = "fetched" /\ hist[r].lost # {} /\ agents[r] # <<>>
        /\ status_of(db, r) = "PENDING"

\* the Listing-Agent rows of agent a
links_of(d, a) == {l \in d.listing_agent : l[2] = a}

\* the fetch phase of request r was a run of profile fetches that has returned
profile_run(r) ==
    /\ req[r].route \in {"update_listings", "update_initial"}
    /\ hist[r].fetched /\ ~hist[r].aborted

\* C11: a run of profile fetches yields a record that carries its identity for
\* every agent, also for one whose every attempt failed, and when
\* insert_updated_listings has returned without a write failure every agent
\* of the run whose fetch succeeded is linked to exactly its incoming listings.
C11_FailedProfileKeepsBatch ==
    \A r \in Reqs :
        /\ (profile_run(r) /\ pc[r] \in {"fetched", "insert"}) =>
              \A k \in 1..Len(agents[r]) : agents[r][k] # None
        /\ (profile_run(r) /\ req[r].route = "update_listings" /\ pc[r] = "reply"
              /\ hist[r].failed = {}) =>
              \A k \in 1..Len(agents[r]) :
                  agents[r][k] # None =>
                      links_of(db, agents[r][k][1].encodedzuid) =
                          {<<z, agents[r][k][1].encodedzuid>> :
                              z \in Range(agents[r][k][1].listings)}

\* C12: a call wrapped by retry(retries=n, return_value=v) invokes the
\* operation at most n times; an attempt that does not raise is the last one
\* and its result is returned; the wrapper sleeps once after every failed
\* attempt but the n-th; after n failed attempts it returns v.
C12_RetryContract ==
    call.pc # "none" =>
        /\ Len(call.modes) <= call.retries
        /\ call.raised <= Len(call.modes)
        /\ call.slept = (IF call.pc = "sleep" THEN call.raised - 1
                         ELSE Min(call.raised, call.retries - 1))
        /\ call.pc = "returned" =>
              \/ /\ call.raised = Len(call.modes) - 1
                 /\ call.result = CallValue
              \/ /\ call.raised = Len(call.modes) /\ call.raised = call.retries
                 /\ call.result = call.return_value

\* get_max_pages with retries = 3 has failed three times and returned 25
C12_Exhausted ==
    /\ call.func = "get_max_pages" /\ call.retries = retries
    /\ call.pc = "returned" /\ call.raised = retries /\ call.slept = retries - 1
    /\ call.result = Some(25)

\* C13: in a call of handle_individual the first attempt fetches in the cheap
\* mode (use_premium false) and every later attempt in the premium mode.
C13_CheapThenPremium ==
    call.func = "handle_individual" =>
        \A k \in 1..Len(call.modes) : call.modes[k] = (k > 1)

\* the incoming record of the job r1 of SpecMerge
incoming == agents["r1"][1][1]

\* C14: when prepare_individual_agent merges an incoming record (page P_new,
\* ranking R_new) into a stored agent (page P_old, ranking R_old), the merged
\* page is min(P_old, P_new); the merged ranking is R_new if P_new < P_old,
\* otherwise R_old, or R_new when R_old is absent.
C14_MergeContract ==
    [][ \A r \in Reqs :
          (pc[r] = "prepare" /\ pc'[r] = "write") =>
              \A k \in 1..Len(batch'[r].agent_data) :
                  LET a == batch'[r].agent_data[k][1]
                      data == batch'[r].agent_data[k][2]
                      new == CHOOSE e \in Range(batch_agents(agents[r], i[r])) : e.encodedzuid = a
                  IN  (a \in DOMAIN db.agent /\ db.agent[a].page # None /\ new.page # None) =>
                          LET P_old == db.agent[a].page[1]
                              R_old == db.agent[a].ranking
                              P_new == new.page[1]
                              R_new == new.ranking
                          IN  /\ data.page = Some(Min(P_old, P_new))
                              /\ data.ranking = IF P_new < P_old THEN R_new
                                                ELSE IF R_old # None THEN R_old ELSE R_new ]_vars

\* a merge on equal pages that adopted the incoming ranking because none was stored
C14_AdoptedRanking ==
    /\ pc["r1"] = "write"
    /\ "a1" \in DOMAIN db.agent /\ db.agent["a1"].page = Some(2) /\ db.agent["a1"].ranking = None
    /\ incoming.page = Some(2) /\ incoming.ranking = Some(1)
    /\ batch["r1"].agent_data = << <<"a1", [full_name |-> Some("n"), email |-> None,
                                           ranking |-> Some(1), page |-> Some(2),
                                           specialties |-> db.agent["a1"].specialties
                                                               \cup Range(incoming.specialties)]>> >>

\* C15: the stored page of an agent, once set, never increases, whatever the
\* ingestions that follow, overlapping ones included.
C15_PageNeverIncreases ==
    [][ \A a \in DOMAIN db.agent :
          db.agent[a].page # None =>
              /\ a \in DOMAIN db'.agent
              /\ db'.agent[a].page # None
              /\ db'.agent[a].page[1] <= db.agent[a].page[1] ]_vars

\* C16: every write of an Agent row stores the union of the specialties that
\* were stored and the incoming ones, so the stored set of an agent never loses
\* an element, whatever the ingestions that follow, overlapping ones included.
C16_SpecialtiesNeverShrink ==
    [][ \A a \in DOMAIN db.agent :
          /\ a \in DOMAIN db'.agent
          /\ db.agent[a].specialties \subseteq db'.agent[a].specialties ]_vars

\* the job r has been fetched without its except branch and ingested
ingested(r) ==
    /\ req[r].route = "scrape" /\ pc[r] \in {"reply", "done"}
    /\ hist[r].fetched /\ ~hist[r].aborted

\* the pages at which the jobs that have been ingested observed agent a
observed_pages(a) ==
    UNION {{s.page[1] : s \in {x \in Range(kept_stubs(req[r], 1, [t \in Range(req[r].agent_types) |-> 0],
                                                    hist[r].lost)) : x.encodedzuid = a}} :
           r \in {q \in Reqs : ingested(q)}}

lowest(S) == CHOOSE m \in S : \A x \in S : m <= x

\* C17: when the jobs that were started have been ingested, none with a failed
\* write, the stored page of every agent they observed is the lowest page
\* number at which any of them observed it, over all categories and pages.
C17_LowestObservedPage ==
    (/\ \A r \in Reqs : pc[r] \in {"idle", "reply", "done"}
     /\ \A r \in Reqs : ingested(r) => hist[r].failed = {}) =>
        \A a \in AgentIds :
            observed_pages(a) # {} =>
                /\ a \in DOMAIN db.agent
                /\ db.agent[a].page = Some(lowest(observed_pages(a)))

\* the Phone, Website and Listing-Agent rows of agent a
contact_rows(d, a) ==
    <<{p \in d.phone : p[1] = a}, {w \in d.website : w[1] = a}, links_of(d, a)>>

\* C18: insert_agents on a stored agent with update_existing false changes
\* neither its Agent row nor its Phone, Website and Listing-Agent rows; with
\* update_existing true the write of the batch sets full_name and email to the
\* incoming values, specialties to the union, and page and ranking to the
\* merged values.
C18_UpdateExisting ==
    [][ \A r \in Reqs : \A k \in 1..Len(agents[r]) :
          LET new == agents[r][k][1]
              a == new.encodedzuid
          IN  (req[r].route = "scrape" /\ pc[r] \in {"insert", "prepare", "write", "complete"}
                 /\ a \in DOMAIN db.agent) =>
                  /\ ~req[r].update_existing =>
                        /\ a \in DOMAIN db'.agent /\ db'.agent[a] = db.agent[a]
                        /\ contact_rows(db', a) = contact_rows(db, a)
                  /\ (req[r].update_existing /\ pc[r] = "write" /\ hist'[r].failed = {}) =>
                        LET og == db.agent[a]
                        IN  /\ db'.agent[a].full_name = new.full_name
                            /\ db'.agent[a].email = new.email
                            /\ db'.agent[a].specialties = og.specialties \cup Range(new.specialties)
                            /\ og.page # None =>
                                  /\ db'.agent[a].page = Some(Min(og.page[1], new.page[1]))
                                  /\ db'.agent[a].ranking =
                                        IF new.page[1] < og.page[1] THEN new.ranking
                                        ELSE IF og.ranking # None THEN og.ranking
                                        ELSE new.ranking ]_vars

\* a re-ingestion with update_existing true has replaced the stored name and
\* lowered the stored page
C18_Updated ==
    /\ req["r1"].update_existing /\ pc["r1"] = "complete" /\ hist["r1"].failed = {}
    /\ incoming.page = Some(1) /\ incoming.ranking = Some(2)
    /\ db.agent["a1"].full_name = Some("n")
    /\ db.agent["a1"].page = Some(1) /\ db.agent["a1"].ranking = Some(2)

\* C19: when insert_agents has returned from a run with update_existing false
\* in which no write failed, every agent of its input that is stored is linked
\* to the city of the job in the Agent-City table.
C19_ExistingAgentLinked ==
    \A r \in Reqs :
        (req[r].route = "scrape" /\ ~req[r].update_existing /\ pc[r] \in {"reply", "done"}
           /\ hist[r].fetched /\ ~hist[r].aborted /\ hist[r].failed = {}) =>
            \A k \in 1..Len(agents[r]) :
                agents[r][k][1].encodedzuid \in DOMAIN db.agent =>
                    <<agents[r][k][1].encodedzuid, upper(req[r].city)>> \in db.agent_city

\* the phone values of a record in the order primary, cell, brokerage, business
incoming_phones(agent) ==
    LET pn == agent.phoneNumbers
    IN  << <<"primary", agent.phoneNumber>>,
           <<"cell", IF pn = None THEN None ELSE pn[1].cell>>,
           <<"brokerage", IF pn = None THEN None ELSE pn[1].brokerage>>,
           <<"business", IF pn = None THEN None ELSE pn[1].business>> >>

\* C20: when insert_agents has returned from a run with update_existing true
\* in which no write failed, the Phone rows of every agent of its input are the
\* incoming phone values, one row for each value with the type that comes first
\* in the order primary, cell, brokerage, business, and its Website rows are the
\* incoming URLs, one row for each; no other row of the agent is left.
C20_ContactsReplaced ==
    \A r \in Reqs :
        (req[r].route = "scrape" /\ req[r].update_existing /\ pc[r] \in {"reply", "done"}
           /\ hist[r].fetched /\ ~hist[r].aborted /\ hist[r].failed = {}) =>
            \A k \in 1..Len(agents[r]) :
                LET new == agents[r][k][1]
                    a == new.encodedzuid
                    vals == incoming_phones(new)
                IN  /\ {p \in db.phone : p[1] = a} =
                          {<<a, vals[j][2][1], vals[j][1]>> :
                              j \in {n \in 1..4 : /\ vals[n][2] # None
                                                  /\ \A h \in 1..(n - 1) : vals[h][2] # vals[n][2]}}
                    /\ {w \in db.website : w[1] = a} = {<<a, u>> : u \in Range(new.websites)}

\* the records of the batch of request r that the write steps ingest with
\* their listings
ingested_with_listings(r) ==
    IF req[r].route = "update_listings"
    THEN {agents[r][k][1] : k \in {n \in 1..Len(agents[r]) : agents[r][n] # None}}
    ELSE {e \in Range(batch_agents(agents[r], i[r])) :
             req[r].update_existing \/ e.encodedzuid \notin DOMAIN db.agent}

\* C21: when the write steps of insert_agents or insert_updated_listings have
\* succeeded, the Listing row of every zpid a record of the batch carries has
\* the field values of a record of that batch, also when the row existed before.
C21_ListingUpserted ==
    [][ \A r \in Reqs :
          (pc[r] = "write" /\ req[r].route \in {"scrape", "update_listings"}
             /\ pc'[r] # "write" /\ hist'[r].failed = hist[r].failed) =>
              \A e \in ingested_with_listings(r) : \A z \in Range(e.listings) :
                  /\ z \in DOMAIN db'.listing
                  /\ db'.listing[z].data \in
                        {f.encodedzuid : f \in {g \in ingested_with_listings(r) :
                                                   z \in Range(g.listings)}} ]_vars

\* C22: insert_updated_listings changes no Agent, Phone or Website row, and
\* when its inserts have succeeded every agent of the run is linked to exactly
\* the zpids of its incoming record, each of them has a Listing row, a zpid that
\* was not stored has the incoming fields, and no Listing row is left that no
\* agent is linked to.
C22_ListingsReplaced ==
    [][ \A r \in Reqs :
          (req[r].route = "update_listings" /\ pc[r] \in {"insert", "write"}) =>
              /\ db'.agent = db.agent /\ db'.phone = db.phone /\ db'.website = db.website
              /\ (pc[r] = "write" /\ pc'[r] = "reply" /\ hist'[r].failed = hist[r].failed) =>
                    /\ \A k \in 1..Len(agents[r]) :
                          LET e == agents[r][k][1]
                          IN  /\ links_of(db', e.encodedzuid) =
                                    {<<z, e.encodedzuid>> : z \in Range(e.listings)}
                              /\ \A z \in Range(e.listings) :
                                    /\ z \in DOMAIN db'.listing
                                    /\ z \notin DOMAIN db.listing =>
                                          \E f \in Range(agents[r]) :
                                              /\ z \in Range(f[1].listings)
                                              /\ db'.listing[z].data = f[1].encodedzuid
                    /\ \A z \in DOMAIN db'.listing : \E l \in db'.listing_agent : l[1] = z ]_vars

\* a1's listings went from {z1, z2} to {z3, z2}: z1 is gone, z3 is stored with
\* the fields read from a1's profile, z2 is still there
C22_Swapped ==
    /\ req["r1"].route = "update_listings" /\ pc["r1"] = "reply" /\ hist["r1"].failed = {}
    /\ Len(agents["r1"]) = 1 /\ agents["r1"][1][1].listings = <<"z3", "z2">>
    /\ links_of(db, "a1") = {<<"z3", "a1">>, <<"z2", "a1">>}
    /\ DOMAIN db.listing = {"z2", "z3"} /\ db.listing["z3"].data = "a1"
    /\ check_status(db, "Y", FALSE) = "COMPLETED"

\* the Listing rows of d that no Listing-Agent row references
orphans(d) == {z \in DOMAIN d.listing : ~ \E l \in d.listing_agent : l[1] = z}

\* C23: in every committed state no Listing row is without a Listing-Agent link.
C23_NoOrphanListing == orphans(db) = {}

\* request r has just been answered 200 by the deletion of an agent
deleted_agent(r) ==
    pc[r] = "idle" /\ pc'[r] = "done" /\ req'[r].route = "delete_agent" /\ response'[r] = 200

\* the rows of d that belong to the agents of S
rows_of(d, S) ==
    <<Restrict(d.agent, DOMAIN d.agent \cap S), {l \in d.agent_city : l[1] \in S},
      {x \in d.phone : x[1] \in S}, {w \in d.website : w[1] \in S},
      {l \in d.listing_agent : l[2] \in S}>>

\* C24: delete_agent(X) removes X's Listing-Agent links, the Listing rows that
\* are left without a link, and the Agent row of X with its Agent-City, Phone
\* and Website rows. Every Listing that another agent is linked to stays as it
\* was, and the City rows, the Status rows and the rows of the other agents are
\* unchanged.
C24_DeleteAgent ==
    [][ \A r \in Reqs :
          deleted_agent(r) =>
              LET X == req'[r].data[1]
              IN  /\ rows_of(db', {X}) = rows_of(EmptyDB, {X})
                  /\ rows_of(db', AgentIds \ {X}) = rows_of(db, AgentIds \ {X})
                  /\ DOMAIN db'.listing =
                        {z \in DOMAIN db.listing : \E l \in db.listing_agent : l[1] = z /\ l[2] # X}
                  /\ \A z \in DOMAIN db'.listing : db'.listing[z] = db.listing[z]
                  /\ db'.city = db.city /\ db'.status = db.status ]_vars

\* a1 and then a2 were deleted: z1, which both were linked to and nobody
\* else, is gone with the second deletion, and a3's listing z2 is still there
C24_SharedListingGone ==
    /\ pc["r1"] = "done" /\ req["r1"].route = "delete_agent" /\ req["r1"].data = <<"a1">>
    /\ pc["r2"] = "done" /\ req["r2"].route = "delete_agent" /\ req["r2"].data = <<"a2">>
    /\ response["r1"] = 200 /\ response["r2"] = 200
    /\ DOMAIN db.agent = {"a3"} /\ DOMAIN db.listing = {"z2"}
    /\ db.listing_agent = {<<"z2", "a3">>}
    /\ db.phone = {} /\ db.city = {"X", "Y"}

\* the agents that are linked to city c in d
linked_agents(d, c) == {a \in DOMAIN d.agent : <<a, c>> \in d.agent_city}

C26_CityIffStatus ==
    (\A r \in Reqs : pc[r] \in {"idle", "done", "failed"}) =>
        \A c \in Cities : c \in db.city <=> c \in DOMAIN db.status

\* the rows of a table (a set of keys) that belong to a city, in any spelling
rows_for(keys, city) == {k \in keys : upper(k) = upper(city)}

ReportedStatuses == {"NOT_SCRAPED", "PENDING", "COMPLETED", "ERROR", "UNKNOWN"}

\* C28: the value check_status returned to a handler that looked a status up is
\* one of NOT_SCRAPED, PENDING, COMPLETED, ERROR and UNKNOWN, also when the
\* lookup raised.
C28_ReportedStatus ==
    \A r \in Reqs :
        (pc[r] # "idle" /\ req[r].route \in {"scrape", "update_listings"}) =>
            job_status[r] \in ReportedStatuses

\* the index of the first element of l that carries the encodedzuid a
first_occurrence(l, a) ==
    CHOOSE k \in 1..Len(l) : /\ l[k].encodedzuid = a
                             /\ \A j \in 1..(k - 1) : l[j].encodedzuid # a

\* C29: in the list remove_duplicates returns, every encodedzuid of the input
\* occurs exactly once and no other one occurs, each is represented by its
\* first occurrence in the input, the elements are in input order, and the
\* number reported as removed is the input length minus the output length.
C29_FirstOccurrences ==
    \A r \in Reqs :
        pc[r] = "unique" =>
            LET input == req[r].data
                output == agents[r]
            IN  /\ \A k \in 1..Len(input) :
                      Cardinality({j \in 1..Len(output) :
                                      output[j].encodedzuid = input[k].encodedzuid}) = 1
                /\ \A j \in 1..Len(output) :
                      /\ \E k \in 1..Len(input) : input[k].encodedzuid = output[j].encodedzuid
                      /\ output[j] = input[first_occurrence(input, output[j].encodedzuid)]
                /\ \A j \in 1..Len(output), m \in 1..Len(output) :
                      j < m => first_occurrence(input, output[j].encodedzuid)
                                  < first_occurrence(input, output[m].encodedzuid)
                /\ response[r] = Len(input) - Len(output)

\* an agent seen twice with different page data between two other agents'
\* results: one element was removed, and the later occurrence is not the kept one
C29_DuplicateRemoved ==
    /\ pc["r1"] = "unique"
    /\ Len(req["r1"].data) = 3
    /\ req["r1"].data[1].encodedzuid = req["r1"].data[3].encodedzuid
    /\ req["r1"].data[1] # req["r1"].data[3]
    /\ req["r1"].data[2].encodedzuid # req["r1"].data[1].encodedzuid
    /\ response["r1"] = 1
    /\ agents["r1"] = <<req["r1"].data[1], req["r1"].data[2]>>

\* the last page of the k-th requested category
range_end(r, k) == IF req[r].page_end # None THEN req[r].page_end[1] ELSE hist[r].probes[k].max_pages

\* the least number of pages of 15 agents that hold total agents
pages_for(total) == CHOOSE n \in 0..total : n * 15 >= total /\ (n = 0 \/ (n - 1) * 15 < total)

\* the page tasks submitted for a category
tasks_of(r, agent_type) == {j \in 1..Len(hist[r].futures) : hist[r].futures[j][1] = agent_type}

\* scrape probed once per category, each probe giving ceil(total/15) capped at
\* 25, or 25 when it failed
probed_once(r) ==
    IF req[r].page_end # None THEN hist[r].probes = <<>>
    ELSE /\ Len(hist[r].probes) = Len(req[r].agent_types)
         /\ \A k \in 1..Len(req[r].agent_types) :
               LET probe == hist[r].probes[k]
               IN  /\ probe.agent_type = req[r].agent_types[k]
                   /\ probe.max_pages = IF probe.fails >= retries THEN 25
                                        ELSE Min(pages_for(probe.total), 25)

\* exactly one task for each requested category and each page in [start, end]
one_task_per_page(r) ==
    LET start == IF req[r].page_start # None THEN req[r].page_start[1] ELSE 1
        futures == hist[r].futures
    IN  /\ \A k \in 1..Len(req[r].agent_types) :
              \A p \in start..range_end(r, k) :
                  Cardinality({j \in 1..Len(futures) :
                                  futures[j] = <<req[r].agent_types[k], p>>}) = 1
        /\ \A j \in 1..Len(futures) :
              \E k \in 1..Len(req[r].agent_types) :
                  /\ futures[j][1] = req[r].agent_types[k]
                  /\ futures[j][2] \in start..range_end(r, k)

\* C30: when scrape has submitted its tasks, there is exactly one page task for
\* each requested category and each page in [start, end], start being 1 by
\* default and end being by default the result of one get_max_pages probe per
\* category (ceil(total/15) capped at 25, and 25 when the probe fails); with no
\* explicit page_end at most 25 page tasks are submitted per category.
C30_FanOut ==
    \A r \in Reqs :
        pc[r] = "submitted" =>
            /\ probed_once(r)
            /\ one_task_per_page(r)
            /\ req[r].page_end = None =>
                  \A k \in 1..Len(req[r].agent_types) :
                      Cardinality(tasks_of(r, req[r].agent_types[k])) <= 25

\* the positions of a request inside insert_agents, insert_updated_listings or
\* db_update_initial_data
IngestPhase == {"insert", "prepare", "write", "complete"}

\* C31: the lock is taken by the step that enters the fetch phase and freed by
\* the step that leaves it, whether the fetch returned agents or was aborted by
\* an exception; no request holds the lock while it ingests, and no step of an
\* ingestion touches the lock.
C31_LockCoversFetchOnly ==
    [][\A r \in Reqs :
          /\ (pc[r] \notin FetchPhase /\ pc'[r] \in FetchPhase) =>
                (scrape_lock = None /\ scrape_lock' = Some(r) /\ pc'[r] = "locked")
          /\ (pc[r] \in FetchPhase /\ pc'[r] \notin FetchPhase) =>
                (scrape_lock = Some(r) /\ scrape_lock' = None /\ pc'[r] \in IngestPhase)
          /\ pc[r] \in IngestPhase => scrape_lock # Some(r)
          /\ (pc[r] \in IngestPhase /\ pc'[r] # pc[r]) => scrape_lock' = scrape_lock]_vars

\* a job fetches, holding the lock, while a finished job is in the middle of
\* its ingestion
C31_FetchDuringIngestion ==
    \E r, q \in Reqs :
        /\ pc[r] = "write" /\ i[r] = 0
        /\ pc[q] = "fetching" /\ scrape_lock = Some(q)

\* request r is a job for a city that has started its fetch (its first
\* statement, the PENDING write, is done) and has not ended its ingestion
in_progress(r) ==
    /\ req[r].route \in {"scrape", "update_listings"}
    /\ pc[r] \in {"fetching", "fetched"} \cup IngestPhase

\* C32: while a job for a city is between the start of its fetch and the end
\* of its ingestion, get_status does not report COMPLETED for that city.
C32_CompletedMeansIdle ==
    \A r \in Reqs : in_progress(r) => status_of(db, r) # "COMPLETED"

\* C33: in a call of handle_page the first attempt fetches in the non-premium
\* mode and every later attempt in the premium mode, so that no attempt after
\* a premium one is non-premium.
C33_PageEscalation ==
    call.func = "handle_page" =>
        /\ Len(call.modes) >= 1 => ~call.modes[1]
        /\ \A k \in 2..Len(call.modes) : call.modes[k]
        /\ \A j, k \in 1..Len(call.modes) : (j < k /\ call.modes[j]) => call.modes[k]
        /\ call.pc = "try" => use_premium(call) = (call.attempt > 1)

\* a handle_page call with retries = 3 whose first two attempts raised has
\* made its third attempt
C33_ThirdAttemptPremium ==
    /\ call.func = "handle_page" /\ call.retries = retries
    /\ call.pc = "returned" /\ call.raised = 2
    /\ call.modes = <<FALSE, TRUE, TRUE>>

\* the agents a completed task returned
returned_by(h, task) ==
    LET result == result_of(h, task)
    IN  IF result = None THEN {} ELSE Range(result[1])

\* the position in submission order of the first task that returned agent a
first_task(h, a) ==
    CHOOSE k \in 1..Len(h.futures) :
        /\ \E x \in returned_by(h, h.futures[k]) : x.encodedzuid = a
        /\ \A j \in 1..(k - 1) : \A x \in returned_by(h, h.futures[j]) : x.encodedzuid # a

\* C34: the deduplicated list is made only when every submitted page task has
\* completed; it holds every agent some task returned exactly once, and the
\* record kept for an agent is the one returned by the first task, in
\* submission order, that returned the agent, whatever the order in which the
\* tasks completed.
C34_OrderIndependent ==
    [][\A r \in Reqs :
          (pc[r] = "waiting" /\ pc'[r] = "fetched") =>
              LET h == hist[r]
                  output == agents'[r]
                  found == UNION {returned_by(h, t) : t \in Range(h.futures)}
              IN  /\ Range(h.futures) \subseteq completed(h)
                  /\ Len(h.done) = Len(h.futures)
                  /\ {output[k][1].encodedzuid : k \in 1..Len(output)}
                        = {x.encodedzuid : x \in found}
                  /\ \A j, k \in 1..Len(output) :
                        output[j][1].encodedzuid = output[k][1].encodedzuid => j = k
                  /\ \A k \in 1..Len(output) :
                        output[k][1] \in
                            returned_by(h, h.futures[first_task(h, output[k][1].encodedzuid)])]_vars

\* the three tasks completed in the reverse of their submission order, all
\* returned agents, and a3, which the second and the third task returned, is
\* kept as the second task returned it
C34_ReverseCompletion ==
    /\ pc["r1"] = "fetched"
    /\ Len(hist["r1"].futures) = 3
    /\ \A k \in 1..3 : /\ hist["r1"].done[k].task = hist["r1"].futures[4 - k]
                       /\ hist["r1"].done[k].result # None
    /\ \E k \in 1..Len(agents["r1"]) :
          /\ agents["r1"][k][1].encodedzuid = "a3"
          /\ agents["r1"][k][1].specialties = <<"listing-agent">>

\* the position of a statement in the write order of a batch
write_order(name) ==
    CASE name = "agent" -> 1 [] name = "agent_city" -> 2 [] name = "phone" -> 3
      [] name = "website" -> 4 [] name = "listing" -> 5 [] name = "listing_agent" -> 6
      [] name = "commit" -> 7 [] OTHER -> 0

\* C35: the statements of a batch are executed in the order Agent upsert,
\* Agent-City links, Phone rows, Website rows, Listing rows, Listing-Agent
\* links, commit, and after a statement that raised neither a later write step
\* nor a commit of the batch is executed.
C35_WriteOrder ==
    \A r \in Reqs :
        LET log == hist[r].statements IN
        \A j, k \in 1..Len(log) :
            j < k =>
                /\ (write_order(log[j]) # 0 /\ write_order(log[k]) # 0) =>
                      write_order(log[j]) < write_order(log[k])
                /\ log[j] = "raised" => write_order(log[k]) = 0

\* the ids of the agents of the batch of request r that starts at index i[r]
batch_ids(r) == {e.encodedzuid : e \in Range(batch_agents(agents[r], i[r]))}

\* C36: an ingestion run takes its input in batches of at most batch_size
\* agents, in order; when a batch begins, no deletion and no prepared row of an
\* earlier batch is pending in the session, and the commit of a batch removes
\* only rows of agents of that batch (and listings left without a link).
C36_BatchesResolved ==
    [][\A r \in Reqs :
          req[r].route \in {"scrape", "update_initial"} =>
              /\ pc[r] = "prepare" =>
                    /\ i[r] % batch_size = 0 /\ i[r] < Len(agents[r])
                    /\ Len(batch_agents(agents[r], i[r])) <= batch_size
                    /\ tx[r] = EmptyTx /\ batch[r] = EmptyBatch
              /\ (pc[r] = "write" /\ pc'[r] # "write") =>
                    /\ i'[r] = i[r] + batch_size
                    /\ tx'[r] = EmptyTx /\ batch'[r] = EmptyBatch
                    /\ \A x \in (db.phone \ db'.phone) \cup (db.website \ db'.website) :
                          x[1] \in batch_ids(r)
                    /\ \A l \in db.listing_agent \ db'.listing_agent : l[2] \in batch_ids(r)]_vars

\* C38: when db_update_initial_data has returned from a run in which no write
\* failed, every agent of the input that is stored has the incoming email and
\* exactly the incoming Phone, Website and Listing-Agent rows, wherever it
\* stands in its batch, and an agent of the input that is not stored has no row.
C38_InitialDataUpdated ==
    \A r \in Reqs :
        (req[r].route = "update_initial" /\ pc[r] = "done" /\ hist[r].fetched
           /\ ~hist[r].aborted /\ hist[r].failed = {}) =>
            \A k \in 1..Len(agents[r]) :
                agents[r][k] # None =>
                    LET new == agents[r][k][1]
                        a == new.encodedzuid
                    IN  IF a \in DOMAIN db.agent
                        THEN /\ db.agent[a].email = new.email
                             /\ {<<p[2], p[3]>> : p \in contact_rows(db, a)[1]} =
                                   {<<new.phoneNumbers[1].cell[1], "cell">>}
                             /\ contact_rows(db, a)[2] = {<<a, w>> : w \in Range(new.websites)}
                             /\ links_of(db, a) = {<<z, a>> : z \in Range(new.listings)}
                        ELSE contact_rows(db, a) = <<{}, {}, {}>>

\* the status lookup of the POST /scrape request r raised and the request
\* asked for no update
lookup_failed(r) ==
    req[r].route = "scrape" /\ job_status[r] = "NOT_SCRAPED(str)" /\ ~req[r].update_existing

\* C37: a POST /scrape without update_existing whose status lookup raised is
\* answered with 500 at once and starts no job: it never waits for or holds
\* the lock, writes no status and fetches nothing, and the step that answers it
\* leaves the database and the lock as they were.
C37_FailedLookupStartsNothing ==
    [][\A r \in Reqs :
          /\ lookup_failed(r) =>
                /\ pc[r] = "done" /\ response[r] = 500
                /\ hist[r] = NoHist /\ scrape_lock # Some(r) /\ agents[r] = <<>>
          /\ (pc[r] = "idle" /\ pc'[r] # "idle" /\ lookup_failed(r)') =>
                /\ pc'[r] = "done" /\ response'[r] = 500
                /\ db' = db /\ scrape_lock' = scrape_lock /\ hist' = hist]_vars

\* the lookup of a request for a city without a Status row raised: a lookup
\* that had succeeded would have started a job
C37_FailedLookupOnFreshCity ==
    \E r \in Reqs :
        /\ lookup_failed(r) /\ pc[r] = "done"
        /\ upper(req[r].city) \notin DOMAIN db.status

\* C39: when delete_listing(zpid) has succeeded, neither the Listing row zpid
\* nor a Listing-Agent row that references zpid exists; the rows of the other
\* listings, their links, and the rows of all agents, cities and statuses are
\* as they were.
C39_DeleteListing ==
    [][\A r \in Reqs :
          (pc[r] = "idle" /\ req'[r].route = "delete_listing" /\ response'[r] = 200) =>
              LET zpid == req'[r].data[1]
                  others == DOMAIN db.listing \ {zpid}
              IN  /\ zpid \notin DOMAIN db'.listing
                  /\ \A l \in db'.listing_agent : l[1] # zpid
                  /\ db'.listing = Restrict(db.listing, others)
                  /\ db'.listing_agent = {l \in db.listing_agent : l[1] # zpid}
                  /\ <<db'.agent, db'.agent_city, db'.phone, db'.website, db'.city, db'.status>>
                        = <<db.agent, db.agent_city, db.phone, db.website, db.city, db.status>>]_vars

\* the listing z1 was deleted with its links to a1 and a2, and z2 is stored
\* with its link to a3
C39_LinkedListingDeleted ==
    \E r \in Reqs :
        /\ req[r].route = "delete_listing" /\ req[r].data = <<"z1">> /\ response[r] = 200
        /\ hist[r].removed = {<<"z1", "a1">>, <<"z1", "a2">>}
        /\ "z1" \notin DOMAIN db.listing
        /\ "z2" \in DOMAIN db.listing /\ <<"z2", "a3">> \in db.listing_agent

\* C40: delete_city on a city with linked agents is all-or-nothing: when the
\* deletion of one of its agents fails, no agent of the city has been removed
\* and the City row and the Status row still exist; otherwise every agent of
\* the city, the City row and the Status row are removed.
C40_AllOrNothing ==
    [][\A r \in Reqs :
          (pc[r] = "idle" /\ pc'[r] = "done" /\ req'[r].route = "delete_city") =>
              LET c == upper(req'[r].city)
                  linked == linked_agents(db, c)
              IN  (c \in db.city /\ linked # {}) =>
                     \/ /\ response'[r] = 500
                        /\ \A a \in linked : a \in DOMAIN db'.agent
                        /\ c \in db'.city /\ c \in DOMAIN db'.status
                     \/ /\ response'[r] = 200
                        /\ \A a \in linked : a \notin DOMAIN db'.agent
                        /\ c \notin db'.city /\ c \notin DOMAIN db'.status]_vars

====
